---- MODULE Spec2Model ----
(***************************************************************************)
(* State-machine model of the AgentFleet resilience layer                  *)
(* (src/capstone): the A2A retry handler and its communicator, the         *)
(* circuit breaker and its manager, the dead letter queue and the recovery *)
(* job processor, the session manager with its archiver, and the event     *)
(* processing pipeline with its session monitor.                           *)
(*                                                                         *)
(* Time is a bounded integer clock `now`.  uuid4() is a counter of ids     *)
(* that never repeats.  Every component has its own next-state relation    *)
(* (NextRetry, NextBreaker, NextRecovery, NextSession, NextPipeline) over  *)
(* the same variables, and its own specification.                          *)
(***************************************************************************)
EXTENDS Integers, Sequences, FiniteSets, TLC

VARIABLES
    now,          \* the clock (time.time() / datetime.now())
    dlq,          \* failed_events table: event_id -> row, or NoRow
    dlqNext,      \* the next uuid4() event id
    rh,           \* the execute_with_retry call in progress
    rhStats,      \* A2ARetryHandler.stats
    rhSends,      \* history: transport requests (session.post) of the call in rh
    rhEnqueued,   \* history: dead letter rows added by the call in rh
    rp,           \* RecoveryJobProcessor: position in _process_recovery_jobs
    rpLog,        \* history: per event id, resends and terminal marks of the recovery loop
    cbConfig,     \* CircuitBreakerManager.config
    breakers,     \* CircuitBreakerManager.breakers: target -> CircuitBreaker, or NoBreaker
    cbLock,       \* CircuitBreaker._lock: target -> holder thread, or 0
    cbStats,      \* CircuitBreakerManager.stats
    cbThread,     \* per thread: position in execute_with_circuit_breaker
    cbHist,       \* history per target: function invocations, failures-only run
    smConfig,     \* SessionManager.config
    smActive,     \* SessionManager.active_sessions: session id -> session data, or NoSession
    smArchive,    \* SessionArchiver archived_sessions table: session id -> row, or NoArchive
    smNext,       \* the next uuid4() session id of SessionManager.create_session
    smStats,      \* SessionManager.stats
    smRestore,    \* per thread: position in SessionManager.restore_session
    smScan,       \* SessionManager._monitor_sessions: position, wake-up time, ids to archive
    smCall,       \* history: the SessionManager call that has just returned for a missing id
    plConfig,     \* EventProcessingPipeline.config
    plSessions,   \* EventProcessingPipeline.sessions and archived_sessions: id -> SessionContext
    plNext,       \* the next uuid4() session id of process_event
    plProc,       \* per thread: position in process_event
    plStats,      \* EventProcessingPipeline.stats
    plLog,        \* history per session: the stage requests sent and their responses
    plScan,       \* session_monitor: position, wake-up time, ids to archive
    mcp,          \* the last parse_envelope call: its argument and what it returned
    pend,         \* the last get_pending_events call on a given table
    calc,         \* the _calculate_delay calls of one retry loop
    plRun,        \* EventProcessingPipeline: self.running, position in start(), the monitor thread
    loop,         \* a component with start()/stop(): self.running, the caller, its loop threads
    cbTrail       \* history per target since the breaker was created or last reset

dlqVars == <<dlq, dlqNext>>
rhVars  == <<rh, rhStats, rhSends, rhEnqueued>>
rpVars  == <<rp, rpLog>>
cbVars  == <<cbConfig, breakers, cbLock, cbStats, cbThread, cbHist>>
smVars  == <<smConfig, smActive, smArchive, smNext, smStats, smRestore, smScan, smCall>>
plVars  == <<plConfig, plSessions, plNext, plProc, plStats, plLog, plScan>>
erVars  == <<dlqVars, rhVars, rpVars, cbVars>>
fnVars == <<mcp, pend, calc>>
lcVars == <<plRun, loop, cbTrail>>
vars == <<now, dlqVars, rhVars, rpVars, cbVars, smVars, plVars, fnVars, lcVars>>

----------------------------------------------------------------------------
(* Bounds of the model *)

MaxTime == 3          \* the clock stops here
MaxRetries == 2       \* largest request.max_retries tried
MaxEvents == 1        \* uuid4() event ids available to the dead letter queue
MaxRetryCalls == 2    \* execute_with_retry calls per behaviour
MaxThreshold == 2     \* largest failure_threshold configured
MaxTimeout == 2       \* largest recovery_timeout configured
MaxCalls == 4         \* execute_with_circuit_breaker calls per behaviour
MaxSessions == 1      \* uuid4() session ids available to each session store
MaxRestores == 1      \* restore_session calls counted per behaviour
MaxRestoreCalls == 2  \* restore_session calls of the callers that may overlap
MaxLoopThreads == 2   \* loop threads of one component that exist at the same time
MaxSessionTimeout == 1  \* largest session_timeout configured
MaxPipelineSessions == 1  \* process_event calls per behaviour
StageRetries == 1     \* config["retry_attempts"] of the pipeline
MaxConcurrentCalls == 2  \* process_event calls running at the same time
MaxTickRows == 2      \* dead letter rows when the recovery loop meets exceptions
MaxLimit == 2         \* largest limit passed to get_pending_events
MaxAttempt == 3       \* largest attempt number passed to _calculate_delay
MaxRequestRetries == 4  \* largest max_retries of a request that is dead-lettered

Null == 0 - 1         \* Python None for a timestamp

Min(a, b) == IF a <= b THEN a ELSE b

Max(a, b) == IF a >= b THEN a ELSE b

RECURSIVE Pow(_, _)
Pow(b, n) == IF n <= 0 THEN 1 ELSE b * Pow(b, n - 1)

RECURSIVE Pow2(_)
Pow2(n) == IF n <= 0 THEN 1 ELSE 2 * Pow2(n - 1)

----------------------------------------------------------------------------
(* agent_utils.py: A2ACommunicator *)

\* What one session.post can do: 200; a non-200 status, requests Timeout or
\* requests ConnectionError (three branches with the same retry logic, one
\* outcome here); any other exception (also response.json() failing).
Outcomes == {"ok", "unreachable", "exception"}

Retryable(o) == o = "unreachable"

\* send_a2a_request: the loop `for attempt in range(request.max_retries + 1)`.
\* outs[k] is what the k-th post does.  Returns the A2AResponse.success flag
\* and the number of posts made.
RECURSIVE send_attempt(_, _, _)
send_attempt(outs, attempt, max_retries) ==
    LET o == outs[attempt + 1] IN
    IF o = "ok" THEN [success |-> TRUE, posts |-> attempt + 1]
    ELSE IF Retryable(o) /\ attempt < max_retries
         THEN send_attempt(outs, attempt + 1, max_retries)
         ELSE [success |-> FALSE, posts |-> attempt + 1]

send_a2a_request(outs, max_retries) == send_attempt(outs, 0, max_retries)

\* The outcome sequences a call with max_retries may consume.
PostSeqs(max_retries) == [1..(max_retries + 1) -> Outcomes]

\* The same outcomes, cut after the request that ends the loop: every
\* request but the last is retried, and only the last attempt may be
\* retryable without a retry.
PostRuns(max_retries) ==
    UNION {{s \in [1..k -> Outcomes] :
              /\ \A i \in 1..(k - 1) : Retryable(s[i])
              /\ Retryable(s[k]) => k = max_retries + 1} :
           k \in 1..(max_retries + 1)}

----------------------------------------------------------------------------
(* error_recovery.py: DeadLetterQueue *)

Urls == {"http://localhost:8004", "http://localhost:9000"}

\* A2ARetryHandler._extract_agent_name
extract_agent_name(url) ==
    IF url = "http://localhost:8004" THEN "triage" ELSE "unknown"

EventIds == 1..(IF MaxEvents >= MaxTickRows THEN MaxEvents ELSE MaxTickRows)
NoRow == [status |-> "absent"]

\* A failed_events row.  original_payload, failure_reason, first_failure and
\* metadata are written once and read by no operation modelled here.
Row(url, fc, last, retry_after, status) ==
    [target_url |-> url, target_agent |-> extract_agent_name(url),
     failure_count |-> fc, last_failure |-> last,
     retry_after |-> retry_after, status |-> status]

\* INSERT OR REPLACE INTO failed_events
add_failed_event(q, id, row) == [q EXCEPT ![id] = row]

\* UPDATE failed_events SET status = ?, retry_after = ? WHERE event_id = ?
update_event_status(q, id, status, retry_after) ==
    IF q[id] = NoRow THEN q
    ELSE [q EXCEPT ![id].status = status, ![id].retry_after = retry_after]

remove_event_flag(q, id) == [q EXCEPT ![id].status = "recovered"]

\* DELETE FROM failed_events WHERE event_id = ?
remove_event(q, id) == [q EXCEPT ![id] = NoRow]

\* SELECT COUNT(*) ... WHERE status IN ('pending', 'retrying')
get_queue_size(q) ==
    Cardinality({id \in EventIds : q[id].status \in {"pending", "retrying"}})

\* the WHERE clause without its first alternative: pending rows are not selected
IsPending_due(row, t) ==
    row.status = "retrying" /\ row.retry_after # Null /\ row.retry_after <= t

\* Mutant of IsPending: rows marked failed are selected as well.
IsPending_any(row, t) ==
    \/ row.status \in {"pending", "failed"}
    \/ row.status = "retrying" /\ row.retry_after # Null /\ row.retry_after <= t

\* The WHERE clause of get_pending_events.  A NULL retry_after never
\* satisfies retry_after <= ?.
IsPending(row, t) ==
    \/ row.status = "pending"
    \/ row.status = "retrying" /\ row.retry_after # Null /\ row.retry_after <= t

\* ORDER BY last_failure DESC
IsOrderedBy_desc(q, s) ==
    \A i, j \in 1..Len(s) : i < j => q[s[i]].last_failure >= q[s[j]].last_failure

\* get_pending_events: the selected ids in one of the orders ORDER BY
\* last_failure allows (ties are in no fixed order), cut to `limit`.
IsOrderedBy(q, s) ==
    \A i, j \in 1..Len(s) : i < j => q[s[i]].last_failure <= q[s[j]].last_failure

get_pending_events(q, t, limit) ==
    LET sel == {id \in EventIds : q[id] # NoRow /\ IsPending(q[id], t)}
        all == {s \in [1..Cardinality(sel) -> sel] :
                   (\A i, j \in 1..Cardinality(sel) : i # j => s[i] # s[j])
                   /\ IsOrderedBy(q, s)}
    IN {SubSeq(s, 1, Min(limit, Len(s))) : s \in all}

\* The rows a failed_events table may hold: written by add_failed_event
\* (pending, from the retry handler or written back by the recovery loop
\* with the retry_after it had read) or by update_event_status (retrying
\* with or without a retry_after; failed, which clears retry_after)
SampleRows ==
    {NoRow}
    \cup {Row("http://localhost:8004", 1, lf, ra, st) :
             lf \in 0..1, ra \in {Null, 1, 2}, st \in {"pending", "retrying"}}
    \cup {Row("http://localhost:8004", 1, lf, Null, "failed") : lf \in 0..1}
SampleTables == [EventIds -> SampleRows]

NoSelect == [op |-> "none", table |-> [id \in EventIds |-> NoRow], t |-> 0,
             limit |-> 0, result |-> <<>>]

\* a call get_pending_events(limit) on a table q at the present time
get_pending_events_call(q, limit) ==
    /\ \E s \in get_pending_events(q, now, limit) :
          pend' = [op |-> "get_pending_events", table |-> q, t |-> now,
                   limit |-> limit, result |-> s]
    /\ UNCHANGED <<now, mcp, calc>>

----------------------------------------------------------------------------
(* error_recovery.py: A2ARetryHandler *)

RhIdle == [pc |-> "idle", max_retries |-> 0, attempt |-> 0, url |-> "",
           dlq_enabled |-> TRUE, success |-> FALSE]

\* Retry configurations.  Delays are in milliseconds and multiples of 100;
\* jitter is in tenths (1 is the default 0.1); backoff_multiplier is at
\* least 1.
RetryConfigs ==
    [initial_delay : {0, 100, 1000}, backoff_multiplier : {1, 2, 3},
     max_delay : {500, 30000}, jitter : {0, 1, 30}]

\* time.time() % 1, in tenths
TimeFractions == {0, 5, 9}

min_delay == 100

\* the delay of _calculate_delay before jitter, without the cap of max_delay
backoff_delay_uncapped(cfg, attempt) ==
    cfg.initial_delay * Pow(cfg.backoff_multiplier, attempt)

\* the delay of _calculate_delay before jitter:
\* min(initial_delay * backoff_multiplier ** attempt, max_delay)
backoff_delay(cfg, attempt) ==
    Min(cfg.initial_delay * Pow(cfg.backoff_multiplier, attempt), cfg.max_delay)

\* _calculate_delay: jitter_amount = delay * jitter, then
\* delay + jitter_amount * (0.5 - time.time() % 1), at least 100 ms.  Both
\* divisions are exact for delays that are multiples of 100.
calculate_delay(cfg, attempt, frac) ==
    LET delay == backoff_delay(cfg, attempt)
        jitter_amount == (delay * cfg.jitter) \div 10
    IN  Max(delay + (jitter_amount * (5 - frac)) \div 10, min_delay)

NoCalc == [op |-> "none", config |-> [initial_delay |-> 0, backoff_multiplier |-> 1,
                                      max_delay |-> 0, jitter |-> 0],
           attempt |-> 0, bases |-> <<>>, slept |-> 0]

\* the retry loop calls _calculate_delay(attempt) and sleeps: attempt 0 of a
\* handler with any configuration, then the next attempt of the same handler
calculate_delay_call(cfg, frac) ==
    /\ calc.op = "none" \/ cfg = calc.config
    /\ LET attempt == IF calc.op = "none" THEN 0 ELSE calc.attempt + 1
       IN  /\ attempt <= MaxAttempt
           /\ calc' = [op |-> "_calculate_delay", config |-> cfg,
                       attempt |-> attempt,
                       bases |-> Append(calc.bases, backoff_delay(cfg, attempt)),
                       slept |-> calculate_delay(cfg, attempt, frac)]
    /\ UNCHANGED <<now, mcp, pend>>

\* The FailedEvent built after the last attempt (lines 196-206).
ExhaustedEvent(url, max_retries, t) ==
    Row(url, max_retries + 1, t, Null, "pending")

\* execute_with_retry is called.
execute_with_retry_begin(url, n, enabled) ==
    /\ rh.pc = "idle"
    /\ rhStats.calls < MaxRetryCalls
    /\ dlqNext <= MaxEvents
    /\ rh' = [pc |-> "attempt", max_retries |-> n, attempt |-> 0, url |-> url,
              dlq_enabled |-> enabled, success |-> FALSE]
    /\ rhSends' = 0
    /\ rhEnqueued' = 0
    /\ rhStats' = [rhStats EXCEPT !.calls = @ + 1]
    /\ UNCHANGED <<now, dlqVars>>

\* What follows the loop when every attempt failed (lines 191-217).
RetryExhausted ==
    /\ rhStats' = [rhStats EXCEPT !.failed_retries = @ + 1]
    /\ rh' = [rh EXCEPT !.pc = "done", !.success = FALSE]
    /\ IF rh.dlq_enabled
       THEN /\ dlq' = add_failed_event(dlq, dlqNext,
                          ExhaustedEvent(rh.url, rh.max_retries, now))
            /\ dlqNext' = dlqNext + 1
            /\ rhEnqueued' = rhEnqueued + 1
       ELSE UNCHANGED <<dlq, dlqNext, rhEnqueued>>

\* One pass of `for attempt in range(request.max_retries + 1)`: one call of
\* communicator.send_a2a_request, and what the loop does with its response.
execute_with_retry_attempt(outs) ==
    /\ rh.pc = "attempt"
    /\ LET r == send_a2a_request(outs, rh.max_retries) IN
       /\ rhSends' = rhSends + r.posts
       /\ IF r.success
          THEN /\ rh' = [rh EXCEPT !.pc = "done", !.success = TRUE]
               /\ rhStats' = [rhStats EXCEPT !.successful_retries =
                                 IF rh.attempt > 0 THEN @ + 1 ELSE @]
               /\ UNCHANGED <<dlqVars, rhEnqueued>>
          ELSE IF rh.attempt < rh.max_retries
               THEN /\ rh' = [rh EXCEPT !.attempt = @ + 1]
                    /\ rhStats' = [rhStats EXCEPT !.total_retries = @ + 1]
                    /\ UNCHANGED <<dlqVars, rhEnqueued>>
               ELSE RetryExhausted
    /\ UNCHANGED now

\* A call of execute_with_retry whose every attempt failed, as the dead letter
\* queue sees it (lines 195-208).
enqueue_exhausted(url, n) ==
    /\ dlqNext \in EventIds
    /\ dlq' = add_failed_event(dlq, dlqNext, ExhaustedEvent(url, n, now))
    /\ dlqNext' = dlqNext + 1
    /\ UNCHANGED now

\* The caller takes the A2AResponse.
execute_with_retry_return ==
    /\ rh.pc = "done"
    /\ rh' = RhIdle
    /\ UNCHANGED <<now, dlqVars, rhStats, rhSends, rhEnqueued>>

----------------------------------------------------------------------------
(* error_recovery.py: CircuitBreaker and CircuitBreakerManager *)

Targets == {"triage", "dispatcher"}
Threads == {1, 2}

NoBreaker == [state |-> "none", failure_count |-> 0, last_failure_time |-> Null]

\* CircuitBreaker.__init__
NewBreaker == [state |-> "CLOSED", failure_count |-> 0, last_failure_time |-> Null]

\* Mutant of BreakerAdmit: a rejected call is recorded as a new failure.
BreakerAdmit_counts(b, t, timeout) ==
    IF b.state = "OPEN"
    THEN IF t - b.last_failure_time > timeout
         THEN [admit |-> TRUE, b |-> [b EXCEPT !.state = "HALF_OPEN"]]
         ELSE [admit |-> FALSE,
               b |-> [b EXCEPT !.failure_count = @ + 1, !.last_failure_time = t]]
    ELSE [admit |-> TRUE, b |-> b]

\* The head of CircuitBreaker.call (lines 79-84): whether the function is
\* invoked, and the breaker after the check.
BreakerAdmit(b, t, timeout) ==
    IF b.state = "OPEN"
    THEN IF t - b.last_failure_time > timeout
         THEN [admit |-> TRUE, b |-> [b EXCEPT !.state = "HALF_OPEN"]]
         ELSE [admit |-> FALSE, b |-> b]
    ELSE [admit |-> TRUE, b |-> b]

\* Mutant of BreakerOnSuccess: the probe closes the breaker and keeps the count.
BreakerOnSuccess_keeps(b) ==
    IF b.state = "HALF_OPEN" THEN [b EXCEPT !.state = "CLOSED"] ELSE b

\* Mutant of BreakerOnSuccess: every successful call clears the count.
BreakerOnSuccess_resets(b) ==
    [b EXCEPT !.state = IF @ = "HALF_OPEN" THEN "CLOSED" ELSE @,
              !.failure_count = 0]

\* The function returned (lines 88-91).
BreakerOnSuccess(b) ==
    IF b.state = "HALF_OPEN"
    THEN [b EXCEPT !.state = "CLOSED", !.failure_count = 0]
    ELSE b

\* Mutant of BreakerOnFailure: opens one failure late (> for >=).
BreakerOnFailure_late(b, t, threshold) ==
    LET c == b.failure_count + 1 IN
    [b EXCEPT !.failure_count = c, !.last_failure_time = t,
              !.state = IF c > threshold THEN "OPEN" ELSE @]

\* The function raised (lines 92-98).
BreakerOnFailure(b, t, threshold) ==
    LET c == b.failure_count + 1 IN
    [b EXCEPT !.failure_count = c, !.last_failure_time = t,
              !.state = IF c >= threshold THEN "OPEN" ELSE @]

\* get_breaker creating a breaker for every agent at the first call
get_breaker_all(bs, target) ==
    IF bs[target] = NoBreaker
    THEN [t \in Targets |-> IF bs[t] = NoBreaker THEN NewBreaker ELSE bs[t]]
    ELSE bs

\* CircuitBreakerManager.get_breaker
get_breaker(bs, target) ==
    IF bs[target] = NoBreaker THEN [bs EXCEPT ![target] = NewBreaker] ELSE bs

\* Mutant of LockFree: breaker.call does not wait for the lock.
LockFree_unlocked(lock, target) == TRUE

\* `with self._lock` in CircuitBreaker.call is entered: no thread holds the
\* lock of the target's breaker
LockFree(lock, target) == lock[target] = 0

CbIdle == [pc |-> "idle", target |-> "", kind |-> "", rejected |-> FALSE,
           exhausted |-> FALSE]

\* CircuitBreakerManager.__init__ with a configuration.
cb_manager_init(threshold, timeout) ==
    /\ cbConfig = [set |-> FALSE]
    /\ cbConfig' = [set |-> TRUE, failure_threshold |-> threshold,
                    recovery_timeout |-> timeout]
    /\ UNCHANGED <<now, dlqVars, rhVars, breakers, cbLock, cbStats, cbThread, cbHist>>

\* execute_with_circuit_breaker is called by thread th: get_breaker, then
\* breaker.call takes the lock and admits or rejects.  kind "raw" wraps a
\* function that returns or raises; kind "retry" wraps
\* A2ARetryHandler.execute_with_retry for a request with max_retries n.
execute_with_circuit_breaker_begin(th, target, kind, n) ==
    /\ cbConfig.set
    /\ cbThread[th].pc = "idle"
    /\ cbStats.calls < MaxCalls
    /\ LockFree(cbLock, target)
    /\ LET bs == get_breaker(breakers, target)
           a  == BreakerAdmit(bs[target], now, cbConfig.recovery_timeout)
       IN
       /\ breakers' = [bs EXCEPT ![target] = a.b]
       /\ cbStats' = [cbStats EXCEPT !.calls = @ + 1,
                         !.breakers_created =
                             IF breakers[target] = NoBreaker THEN @ + 1 ELSE @]
       /\ IF a.admit
          THEN /\ cbLock' = [cbLock EXCEPT ![target] = th]
               /\ cbThread' = [cbThread EXCEPT ![th] =
                      [pc |-> "running", target |-> target, kind |-> kind,
                       rejected |-> FALSE, exhausted |-> FALSE]]
               /\ cbHist' = [cbHist EXCEPT ![target].invoked = @ + 1]
               /\ IF kind = "retry"
                  THEN execute_with_retry_begin("http://localhost:8004", n, TRUE)
                  ELSE UNCHANGED <<now, dlqVars, rhVars>>
          ELSE /\ cbThread' = [cbThread EXCEPT ![th] =
                      [pc |-> "err", target |-> target, kind |-> kind,
                       rejected |-> TRUE, exhausted |-> FALSE]]
               /\ UNCHANGED <<now, dlqVars, rhVars, cbLock, cbHist>>
    /\ UNCHANGED cbConfig

\* The wrapped function of a "raw" call returns or raises; breaker.call
\* updates the breaker and releases the lock.
breaker_call_return(th, raised) ==
    /\ cbThread[th].pc = "running"
    /\ cbThread[th].kind = "raw"
    /\ LET t == cbThread[th].target IN
       /\ breakers' = [breakers EXCEPT ![t] =
              IF raised
              THEN BreakerOnFailure(@, now, cbConfig.failure_threshold)
              ELSE BreakerOnSuccess(@)]
       /\ cbHist' = [cbHist EXCEPT ![t].fails =
              IF raised /\ @ # Null THEN @ + 1 ELSE Null]
       /\ cbLock' = [cbLock EXCEPT ![t] = 0]
       /\ cbThread' = [cbThread EXCEPT ![th].pc = IF raised THEN "err" ELSE "ok"]
    /\ UNCHANGED <<now, dlqVars, rhVars, cbConfig, cbStats>>

\* what is remembered of the calls of a breaker: the HALF_OPEN to CLOSED
\* transitions it has made and, since its creation or the last of these
\* transitions, the calls that raised and whether a call returned on the
\* CLOSED breaker after one had raised
NoTrail == [closes |-> 0, failures |-> 0, kept |-> FALSE]

\* breaker_call_return with the history of the breaker
breaker_call_return_traced(th, raised) ==
    /\ breaker_call_return(th, raised)
    /\ LET t == cbThread[th].target
           b == breakers[t]
           tr == cbTrail[t]
       IN  cbTrail' = [cbTrail EXCEPT ![t] =
              IF b.state = "HALF_OPEN" /\ breakers'[t].state = "CLOSED"
              THEN [closes |-> tr.closes + 1, failures |-> 0, kept |-> FALSE]
              ELSE IF raised
                   THEN [tr EXCEPT !.failures = tr.failures + 1]
                   ELSE [tr EXCEPT !.kept = tr.kept \/ (b.state = "CLOSED"
                                                        /\ tr.failures > 0)]]

\* The wrapped execute_with_retry returns its A2AResponse: it has caught
\* every exception of its attempts, so breaker.call sees a return.
breaker_call_retry_return(th) ==
    /\ cbThread[th].pc = "running"
    /\ cbThread[th].kind = "retry"
    /\ execute_with_retry_return
    /\ LET t == cbThread[th].target IN
       /\ breakers' = [breakers EXCEPT ![t] = BreakerOnSuccess(@)]
       /\ cbHist' = [cbHist EXCEPT ![t].fails = Null]
       /\ cbLock' = [cbLock EXCEPT ![t] = 0]
       /\ cbThread' = [cbThread EXCEPT ![th].pc = "ok",
                                        ![th].exhausted = ~rh.success]
    /\ UNCHANGED <<cbConfig, cbStats>>

\* After breaker.call: the statistics of lines 338-354, then the result or
\* the exception goes to the caller.
execute_with_circuit_breaker_end(th) ==
    /\ cbThread[th].pc \in {"ok", "err"}
    /\ LET b == breakers[cbThread[th].target] IN
       cbStats' =
         IF cbThread[th].pc = "ok"
         THEN [cbStats EXCEPT !.breakers_recovered =
                  IF b.state = "HALF_OPEN" THEN @ + 1 ELSE @]
         ELSE [cbStats EXCEPT !.total_failures = @ + 1,
                  !.requests_blocked = IF b.state = "OPEN" THEN @ + 1 ELSE @]
    /\ cbThread' = [cbThread EXCEPT ![th] = CbIdle]
    /\ UNCHANGED <<now, dlqVars, rhVars, cbConfig, breakers, cbLock, cbHist>>

----------------------------------------------------------------------------
(* error_recovery.py: RecoveryJobProcessor.  The clock counts units of      *)
(* recovery_interval (300 s), so recovery_backoff_base (300 s) is one unit. *)

max_recovery_attempts == 5
recovery_backoff_base == 1
recovery_interval == 1
recovery_limit == 10

\* history per row: resends counts the send_a2a_request calls made for it,
\* posts the transport requests made for it in the present pass
NoLog == [resends |-> 0, posts |-> 0, skipped |-> FALSE, recovered |-> FALSE]

\* retry_delay = recovery_backoff_base * (2 ** (failure_count - 1))
retry_delay(fc) == recovery_backoff_base * Pow2(fc - 1)

\* `if failed_event.failure_count >= self.max_recovery_attempts`
AttemptsExhausted(fc) == fc >= max_recovery_attempts

\* the event written back after a failed resend, with the count left as read
failed_recovery_event_same(ev, t) == [ev EXCEPT !.last_failure = t]

\* the event written back after a failed resend: failure_count += 1,
\* last_failure = now; status and retry_after stay as they were read
failed_recovery_event(ev, t) ==
    [ev EXCEPT !.failure_count = @ + 1, !.last_failure = t]

\* _process_loop wakes up: _process_recovery_jobs reads the pending events.
recovery_tick_begin ==
    /\ rp.pc = "sleep"
    /\ now >= rp.wake
    /\ \E s \in get_pending_events(dlq, now, recovery_limit) :
          rp' = [rp EXCEPT !.pc = "rows",
                   !.pending = [i \in 1..Len(s) |-> [id |-> s[i], ev |-> dlq[s[i]]]]]
    /\ rpLog' = [id \in EventIds |->
                    IF dlq[id].status = "failed" THEN [rpLog[id] EXCEPT !.skipped = TRUE]
                    ELSE rpLog[id]]
    /\ UNCHANGED <<now, dlqVars>>

\* The body of `for failed_event in pending_events` for the next event.
\* outs is what the posts of the resend do; raises says that a statement of
\* the try block after update_event_status raised (the except branch logs).
recovery_process_row(outs, raises) ==
    /\ rp.pc = "rows"
    /\ rp.pending # <<>>
    /\ LET id == rp.pending[1].id
           ev == rp.pending[1].ev
           q1 == update_event_status(dlq, id, "retrying", now + retry_delay(ev.failure_count))
           r  == send_a2a_request(outs, 1)
       IN
       /\ rp' = [rp EXCEPT !.pending = Tail(@)]
       /\ IF AttemptsExhausted(ev.failure_count)
          THEN /\ dlq' = update_event_status(dlq, id, "failed", Null)
               /\ UNCHANGED rpLog
          ELSE IF raises
               THEN /\ dlq' = q1
                    /\ UNCHANGED rpLog
               ELSE /\ rpLog' = [rpLog EXCEPT ![id].resends = @ + 1,
                                               ![id].posts = r.posts,
                                               ![id].recovered = r.success]
                    /\ dlq' = IF r.success
                                 THEN remove_event(q1, id)
                                 ELSE add_failed_event(q1, id,
                                          failed_recovery_event(ev, now))
    /\ UNCHANGED <<now, dlqNext>>

\* update_event_status(event_id, "failed") of a row past its attempts
\* raises (the database is locked, say).  The statement is outside the try
\* block of the loop body, so the exception leaves _process_recovery_jobs
\* and _process_loop catches it: time.sleep(60), less than one unit of the
\* clock, and the rows not yet reached are dropped.
recovery_row_raise ==
    /\ rp.pc = "rows"
    /\ rp.pending # <<>>
    /\ AttemptsExhausted(rp.pending[1].ev.failure_count)
    /\ rp' = [rp EXCEPT !.pc = "sleep", !.wake = now, !.pending = <<>>]
    /\ UNCHANGED <<now, dlqVars, rpLog>>

\* The for loop is over: time.sleep(self.recovery_interval).
recovery_tick_end ==
    /\ rp.pc = "rows"
    /\ rp.pending = <<>>
    /\ rp' = [rp EXCEPT !.pc = "sleep", !.wake = now + recovery_interval]
    /\ rpLog' = [id \in EventIds |-> [rpLog[id] EXCEPT !.posts = 0]]
    /\ UNCHANGED <<now, dlqVars>>

\* time.sleep(self.recovery_interval) returns after the clock of the model
\* has stopped: the loop goes on, time is no longer counted
recovery_sleep_returns ==
    /\ rp.pc = "sleep"
    /\ now = MaxTime
    /\ rp.wake > now
    /\ rp' = [rp EXCEPT !.wake = now]
    /\ UNCHANGED <<now, dlqVars, rpLog>>

----------------------------------------------------------------------------
(* session_archival.py: SessionArchiver and SessionManager.  Timeouts and   *)
(* intervals are in units of the clock; monitoring_interval is one unit.    *)

SessionIds == 1..MaxSessions
monitoring_interval == 1

NoSession == [status |-> "none", last_activity |-> Null]
NoArchive == [present |-> FALSE, last_activity |-> Null, restore_count |-> 0,
              restored_at |-> Null]

NoCall == [op |-> "none", found |-> FALSE, raised |-> FALSE]

\* session_id in self.active_sessions
InActive(active, id) == active[id].status # "none"

\* a row with this session_id exists in archived_sessions
InArchive(archive, id) == archive[id].present

\* SessionArchiver.archive_session: INSERT OR REPLACE, restore_count 0
archiver_archive_session(archive, id, session_data) ==
    [archive EXCEPT ![id] = [present |-> TRUE,
                             last_activity |-> session_data.last_activity,
                             restore_count |-> 0,
                             restored_at |-> Null]]

archiver_restore_session_noop(archive, id, t) == archive

\* SessionArchiver.restore_session on an existing row: the UPDATE of the
\* restore bookkeeping.  The row stays in the table.
archiver_restore_session(archive, id, t) ==
    [archive EXCEPT ![id].restore_count = @ + 1, ![id].restored_at = t]

\* SessionManager.__init__ with a configuration
session_manager_init(timeout) ==
    /\ ~smConfig.set
    /\ smConfig' = [set |-> TRUE, session_timeout |-> timeout]
    /\ UNCHANGED <<now, smActive, smArchive, smNext, smStats, smRestore, smScan, smCall>>

\* SessionManager.create_session with a fresh uuid4() id
create_session ==
    /\ smConfig.set
    /\ smNext <= MaxSessions
    /\ smActive' = [smActive EXCEPT ![smNext] =
                       [status |-> "active", last_activity |-> now]]
    /\ smNext' = smNext + 1
    /\ smCall' = NoCall
    /\ UNCHANGED <<now, smConfig, smArchive, smStats, smRestore, smScan>>

\* SessionManager.archive_session, under self._lock: the changes to the
\* two stores and to stats["archived_sessions"]
archive_session(id) ==
    IF InActive(smActive, id)
    THEN /\ smArchive' = archiver_archive_session(smArchive, id, smActive[id])
         /\ smActive' = [smActive EXCEPT ![id] = NoSession]
    ELSE UNCHANGED <<smActive, smArchive>>

ArchivedStat(id) == IF InActive(smActive, id) THEN 1 ELSE 0

\* a caller archives an active session
archive_session_manual(id) ==
    /\ InActive(smActive, id)
    /\ archive_session(id)
    /\ smStats' = [smStats EXCEPT !.archived_sessions = @ + ArchivedStat(id)]
    /\ smCall' = NoCall
    /\ UNCHANGED <<now, smConfig, smNext, smRestore, smScan>>

\* SessionManager.restore_session, first half: archiver.restore_session,
\* outside self._lock, with no other statement on the table between its
\* SELECT and its UPDATE
restore_session_read(th, id) ==
    /\ smRestore[th].pc = "idle"
    /\ smStats.restored_sessions < MaxRestores
    /\ InArchive(smArchive, id)
    /\ smArchive' = archiver_restore_session(smArchive, id, now)
    /\ smRestore' = [smRestore EXCEPT ![th] =
                        [pc |-> "activate", id |-> id,
                         last_activity |-> smArchive[id].last_activity,
                         restore_count |-> smArchive[id].restore_count + 1]]
    /\ smCall' = NoCall
    /\ UNCHANGED <<now, smConfig, smActive, smNext, smStats, smScan>>

\* SessionManager.restore_session, second half, under self._lock
restore_session_activate(th) ==
    /\ smRestore[th].pc = "activate"
    /\ smActive' = [smActive EXCEPT ![smRestore[th].id] =
                       [status |-> "restored",
                        last_activity |-> smRestore[th].last_activity]]
    /\ smStats' = [smStats EXCEPT !.restored_sessions = @ + 1]
    /\ smRestore' = [smRestore EXCEPT ![th] = [pc |-> "idle", id |-> 0,
                                               last_activity |-> Null,
                                               restore_count |-> 0]]
    /\ smCall' = NoCall
    /\ UNCHANGED <<now, smConfig, smArchive, smNext, smScan>>

\* The restore_session calls that have read the table and not yet returned
RestoresInFlight == Cardinality({th \in Threads : smRestore[th].pc # "idle"})

\* SessionArchiver.restore_session, the SELECT: the row's session_data and
\* restore_count are read on the caller's own connection.  No transaction
\* is open yet, so another connection may read or write the row before the
\* UPDATE that follows.
archiver_restore_select(th, id) ==
    /\ smRestore[th].pc = "idle"
    /\ smStats.restored_sessions + RestoresInFlight < MaxRestoreCalls
    /\ InArchive(smArchive, id)
    /\ smRestore' = [smRestore EXCEPT ![th] =
                        [pc |-> "update", id |-> id,
                         last_activity |-> smArchive[id].last_activity,
                         restore_count |-> smArchive[id].restore_count]]
    /\ smCall' = NoCall
    /\ UNCHANGED <<now, smConfig, smActive, smArchive, smNext, smStats, smScan>>

\* new_restore_count = restore_count + 1, from the value the SELECT returned
new_restore_count(read) == read + 1

\* SessionArchiver.restore_session, the UPDATE and the return: the row gets
\* new_restore_count and restored_at, the caller gets the session data with
\* restore_count = new_restore_count
archiver_restore_update(th) ==
    LET id == smRestore[th].id
        n  == new_restore_count(smRestore[th].restore_count)
    IN  /\ smRestore[th].pc = "update"
        /\ smArchive' = [smArchive EXCEPT ![id].restore_count = n,
                                          ![id].restored_at = now]
        /\ smRestore' = [smRestore EXCEPT ![th].pc = "activate",
                                          ![th].restore_count = n]
        /\ smCall' = NoCall
        /\ UNCHANGED <<now, smConfig, smActive, smNext, smStats, smScan>>

\* SessionManager.update_session_activity: under self._lock, last_activity
\* is set for an id in active_sessions; for any other id nothing is done
\* and nothing is raised.
update_session_activity(id) ==
    /\ smConfig.set
    /\ smActive' = IF InActive(smActive, id)
                   THEN [smActive EXCEPT ![id].last_activity = now]
                   ELSE smActive
    /\ smCall' = IF InActive(smActive, id)
                 THEN NoCall
                 ELSE [op |-> "update_session_activity", found |-> FALSE,
                       raised |-> FALSE]
    /\ UNCHANGED <<now, smConfig, smArchive, smNext, smStats, smRestore, smScan>>

\* SessionManager.restore_session for an id without an archive row:
\* archiver.restore_session returns None, and so does the manager
restore_session_missing(th, id) ==
    /\ smConfig.set
    /\ smRestore[th].pc = "idle"
    /\ ~InArchive(smArchive, id)
    /\ smCall' = [op |-> "restore_session", found |-> FALSE, raised |-> FALSE]
    /\ UNCHANGED <<now, smConfig, smActive, smArchive, smNext, smStats, smRestore, smScan>>

ExpiredSessions_inclusive(active, t, timeout) ==
    {id \in SessionIds : /\ InActive(active, id)
                         /\ t - active[id].last_activity >= timeout}

\* the ids _check_session_timeout collects under self._lock
ExpiredSessions(active, t, timeout) ==
    {id \in SessionIds : /\ InActive(active, id)
                         /\ t - active[id].last_activity > timeout}

\* SessionManager._check_session_timeout, the scan under self._lock
check_session_timeout_collect ==
    /\ smConfig.set
    /\ smScan.pc = "sleep"
    /\ now >= smScan.wake
    /\ smScan' = [pc |-> "archiving", wake |-> 0,
                  todo |-> ExpiredSessions(smActive, now, smConfig.session_timeout)]
    /\ UNCHANGED <<now, smConfig, smActive, smArchive, smNext, smStats, smRestore, smCall>>

\* SessionManager._check_session_timeout, one pass of the archive loop.  The
\* passes touch different ids, so their order is not kept.
check_session_timeout_archive(id) ==
    /\ smScan.pc = "archiving"
    /\ id \in smScan.todo
    /\ archive_session(id)
    /\ smStats' = [smStats EXCEPT !.archived_sessions = @ + ArchivedStat(id),
                                  !.expired_sessions = @ + 1]
    /\ smScan' = [smScan EXCEPT !.todo = @ \ {id}]
    /\ UNCHANGED <<now, smConfig, smNext, smRestore, smCall>>

\* SessionManager._monitor_sessions: time.sleep(monitoring_interval)
monitor_sessions_sleep ==
    /\ smScan.pc = "archiving"
    /\ smScan.todo = {}
    /\ smScan' = [smScan EXCEPT !.pc = "sleep", !.wake = now + monitoring_interval]
    /\ UNCHANGED <<now, smConfig, smActive, smArchive, smNext, smStats, smRestore, smCall>>

----------------------------------------------------------------------------
(* integration_pipeline.py: EventProcessingPipeline.  process_event sends   *)
(* each stage request with a2a_communicator.send_a2a_request; the pipeline  *)
(* holds no retry handler, breaker manager or dead letter queue.            *)

Stages == <<"ingest", "verifier", "summarizer", "triage", "dispatcher">>
PlWorkers == 1..MaxConcurrentCalls
PlSessionIds == 1..(IF MaxPipelineSessions >= MaxConcurrentCalls
                    THEN MaxPipelineSessions ELSE MaxConcurrentCalls)
session_cleanup_interval == 1

\* response.data of a successful response: falsy, a dict without an
\* incident_id, a dict with one
Datas == {"empty", "no_id", "full"}

Truthy_all(x) == TRUE

\* `if not x: raise` in process_event; "none" is Python None
Truthy(x) == x # "none" /\ x # "empty"

\* events is the length of SessionContext.events
NoContext == [where |-> "none", status |-> "none", last_activity |-> Null,
              events |-> 0, incident_id |-> Null, error |-> FALSE]
\* what the memory bank can answer to query_similar_incidents, as far as
\* _get_memory_context tells the cases apart: the event has no content and
\* nothing is asked, incidents are found, none is found, the query raises
MemoryQueries == {"no_content", "hits", "nothing", "raise"}
EmptyContext == [similar_incidents |-> {}, query_performed |-> FALSE]
NoMemory == [query |-> "none", context |-> EmptyContext]

\* _get_memory_context with the except branch answering for a raising query
get_memory_context_keeps(q) ==
    IF q \in {"hits", "raise"}
    THEN [similar_incidents |-> {"incident"}, query_performed |-> TRUE]
    ELSE IF q = "nothing"
         THEN [similar_incidents |-> {}, query_performed |-> TRUE]
         ELSE EmptyContext

\* EventProcessingPipeline._get_memory_context: the incidents found when the
\* query is made and answers; the empty context when the event has no
\* content or the query raises (logged as a warning)
get_memory_context(q) ==
    IF q = "hits"
    THEN [similar_incidents |-> {"incident"}, query_performed |-> TRUE]
    ELSE IF q = "nothing"
         THEN [similar_incidents |-> {}, query_performed |-> TRUE]
         ELSE EmptyContext

NoHistory == [requests |-> <<>>, returned |-> FALSE, success |-> FALSE,
              exhausted |-> "none", memory |-> NoMemory]
PlIdle == [pc |-> "idle", sid |-> 0, stage |-> 0, pending |-> <<>>, tmp |-> Null]

PlInit ==
    /\ plConfig = [set |-> FALSE, session_timeout |-> 0, retry_attempts |-> 0]
    /\ plSessions = [id \in PlSessionIds |-> NoContext]
    /\ plNext = 1
    /\ plProc = [w \in PlWorkers |-> PlIdle]
    /\ plStats = [events_processed |-> 0, incidents_created |-> 0, errors |-> 0]
    /\ plLog = [id \in PlSessionIds |-> NoHistory]
    /\ plScan = [pc |-> "sleep", wake |-> 0, todo |-> {}]

\* response.data as far as a stage reads it: only a successful response
\* carries data
StageDatas(avail, outs, max_retries) ==
    IF avail /\ send_a2a_request(outs, max_retries).success THEN Datas ELSE {"empty"}

\* the transport outcomes a stage call meets: none without an endpoint
StageOuts(avail, max_retries) ==
    IF avail THEN PostRuns(max_retries) ELSE {<<>>}

\* EventProcessingPipeline.__init__ with a configuration
pipeline_init(timeout, retries) ==
    /\ ~plConfig.set
    /\ plConfig' = [set |-> TRUE, session_timeout |-> timeout,
                    retry_attempts |-> retries]
    /\ UNCHANGED <<now, plSessions, plNext, plProc, plStats, plLog, plScan>>

\* process_event up to the first stage: uuid4() and _create_session
process_event_begin(w) ==
    /\ plConfig.set
    /\ plProc[w].pc = "idle"
    /\ plNext \in PlSessionIds
    /\ plSessions' = [plSessions EXCEPT ![plNext] =
                         [where |-> "active", status |-> "active",
                          last_activity |-> now, events |-> 0,
                          incident_id |-> Null, error |-> FALSE]]
    /\ plProc' = [plProc EXCEPT ![w] = [pc |-> "stage", sid |-> plNext, stage |-> 1,
                                        pending |-> <<>>, tmp |-> Null]]
    /\ plNext' = plNext + 1
    /\ UNCHANGED <<now, plConfig, plStats, plLog, plScan>>

\* A stage method (_ingest_event ... _dispatch_incident): no request without
\* an endpoint, else one send_a2a_request; response.data on success, None on
\* any failure.
stage_call(avail, outs, max_retries, data) ==
    IF ~avail
    THEN [sent |-> FALSE, success |-> FALSE, ret |-> "none", exhausted |-> FALSE]
    ELSE LET r == send_a2a_request(outs, max_retries)
         IN  [sent |-> TRUE, success |-> r.success,
              ret |-> IF r.success THEN data ELSE "none",
              exhausted |-> /\ Len(outs) = max_retries + 1
                            /\ \A i \in 1..Len(outs) : Retryable(outs[i])]

\* process_event, one stage and what follows it in the same thread: the
\* next stage, the completion after dispatch, or the except branch, up to
\* first statistic, whose value is read; the statistics to write are left
\* in `pending`.  _generate_summary asks the memory bank before it builds its
\* request.
process_event_stage(w, avail, mem, outs, data) ==
    /\ plProc[w].pc = "stage"
    /\ LET sid == plProc[w].sid
           k   == plProc[w].stage
           c   == stage_call(avail, outs, plConfig.retry_attempts, data)
           rq  == IF c.sent
                  THEN Append(plLog[sid].requests,
                              [stage |-> Stages[k], ok |-> c.success,
                               data |-> Truthy(c.ret)])
                  ELSE plLog[sid].requests
           mc  == IF Stages[k] = "summarizer" /\ avail
                  THEN [query |-> mem, context |-> get_memory_context(mem)]
                  ELSE plLog[sid].memory
       IN  IF Truthy(c.ret)
           THEN IF k < Len(Stages)
                THEN /\ plProc' = [plProc EXCEPT ![w].stage = k + 1]
                     /\ plLog' = [plLog EXCEPT ![sid].requests = rq,
                                               ![sid].memory = mc]
                     /\ UNCHANGED plSessions
                ELSE /\ plSessions' = [plSessions EXCEPT
                            ![sid].incident_id = IF c.ret = "full" THEN sid ELSE Null,
                            ![sid].status = "completed"]
                     /\ plLog' = [plLog EXCEPT ![sid].requests = rq,
                                               ![sid].memory = mc,
                                               ![sid].success = TRUE]
                     /\ plProc' = [plProc EXCEPT
                            ![w].pc = "stats",
                            ![w].pending = <<"events_processed", "incidents_created">>,
                            ![w].tmp = plStats.events_processed]
           ELSE /\ plSessions' = IF plSessions[sid].where = "active"
                                 THEN [plSessions EXCEPT ![sid].status = "failed",
                                                         ![sid].error = TRUE]
                                 ELSE plSessions
                /\ plLog' = [plLog EXCEPT ![sid].requests = rq,
                                          ![sid].memory = mc,
                                          ![sid].success = FALSE,
                                          ![sid].exhausted =
                                              IF c.exhausted THEN Stages[k] ELSE "none"]
                /\ plProc' = [plProc EXCEPT ![w].pc = "stats",
                                            ![w].pending = <<"errors">>,
                                            ![w].tmp = plStats.errors]
    /\ UNCHANGED <<now, plConfig, plNext, plStats, plScan>>

\* self.stats[name] += 1 for a later statistic, first half: the value is
\* read.  No lock is held.
process_event_stats_load(w) ==
    /\ plProc[w].pc = "stats"
    /\ plProc[w].tmp = Null
    /\ plProc' = [plProc EXCEPT ![w].tmp = plStats[Head(plProc[w].pending)]]
    /\ UNCHANGED <<now, plConfig, plSessions, plNext, plStats, plLog, plScan>>

\* self.stats[name] += 1, second half: the value read, plus one, is stored;
\* after the last statistic process_event returns its result
process_event_stats_store(w) ==
    /\ plProc[w].pc = "stats"
    /\ plProc[w].tmp # Null
    /\ plStats' = [plStats EXCEPT ![Head(plProc[w].pending)] = plProc[w].tmp + 1]
    /\ IF Len(plProc[w].pending) > 1
       THEN /\ plProc' = [plProc EXCEPT ![w].pending = Tail(@), ![w].tmp = Null]
            /\ UNCHANGED plLog
       ELSE /\ plProc' = [plProc EXCEPT ![w] = PlIdle]
            /\ plLog' = [plLog EXCEPT ![plProc[w].sid].returned = TRUE]
    /\ UNCHANGED <<now, plConfig, plSessions, plNext, plScan>>

\* the ids EventProcessingPipeline._check_session_timeout collects
ExpiredContexts(sessions, t, timeout) ==
    {id \in PlSessionIds : /\ sessions[id].where = "active"
                         /\ sessions[id].status = "active"
                         /\ t - sessions[id].last_activity > timeout}

\* EventProcessingPipeline._check_session_timeout, the scan of self.sessions
pipeline_check_session_timeout_collect ==
    /\ plConfig.set
    /\ plScan.pc = "sleep"
    /\ now >= plScan.wake
    /\ plScan' = [pc |-> "archiving", wake |-> 0,
                  todo |-> ExpiredContexts(plSessions, now, plConfig.session_timeout)]
    /\ UNCHANGED <<now, plConfig, plSessions, plNext, plProc, plStats, plLog>>

\* EventProcessingPipeline._check_session_timeout, one pass of the archive
\* loop: the session moves from self.sessions to self.archived_sessions
pipeline_check_session_timeout_archive(id) ==
    /\ plScan.pc = "archiving"
    /\ id \in plScan.todo
    /\ plSessions' = [plSessions EXCEPT ![id].status = "archived",
                                        ![id].where = "archived"]
    /\ plScan' = [plScan EXCEPT !.todo = @ \ {id}]
    /\ UNCHANGED <<now, plConfig, plNext, plProc, plStats, plLog>>

\* session_monitor: time.sleep(session_cleanup_interval)
session_monitor_sleep ==
    /\ plScan.pc = "archiving"
    /\ plScan.todo = {}
    /\ plScan' = [plScan EXCEPT !.pc = "sleep",
                                !.wake = now + session_cleanup_interval]
    /\ UNCHANGED <<now, plConfig, plSessions, plNext, plProc, plStats, plLog>>

----------------------------------------------------------------------------
(* EventProcessingPipeline.start and the session monitor thread it spawns *)

PlStopped == [running |-> FALSE, start |-> "idle", monitor |-> "none"]

\* start() up to and including _start_session_monitoring(): self.running
\* is False, the monitor thread is created and started
pipeline_start_spawn ==
    /\ plConfig.set
    /\ plRun.start = "idle"
    /\ ~plRun.running
    /\ plRun' = [plRun EXCEPT !.start = "spawned", !.monitor = "test"]
    /\ UNCHANGED <<now, plVars>>

\* start(): self.running = True, and the return
pipeline_start_return ==
    /\ plRun.start = "spawned"
    /\ plRun' = [plRun EXCEPT !.start = "returned", !.running = TRUE]
    /\ UNCHANGED <<now, plVars>>

\* session_monitor: the test of `while self.running`, made when the thread
\* starts and after every sleep; the thread ends when it reads False
session_monitor_test ==
    /\ plRun.monitor = "test"
    /\ plScan.pc = "sleep"
    /\ now >= plScan.wake
    /\ plRun' = [plRun EXCEPT !.monitor = IF plRun.running THEN "body" ELSE "exited"]
    /\ UNCHANGED <<now, plVars>>

\* session_monitor, the loop body: _check_session_timeout() ...
session_monitor_collect ==
    /\ plRun.monitor = "body"
    /\ pipeline_check_session_timeout_collect
    /\ UNCHANGED plRun

session_monitor_archive(id) ==
    /\ plRun.monitor = "body"
    /\ pipeline_check_session_timeout_archive(id)
    /\ UNCHANGED plRun

\* ... and time.sleep(session_cleanup_interval), after which the loop
\* condition is tested again
session_monitor_sleeps ==
    /\ plRun.monitor = "body"
    /\ session_monitor_sleep
    /\ plRun' = [plRun EXCEPT !.monitor = "test"]

----------------------------------------------------------------------------
(* RecoveryJobProcessor and SessionManager: start(), stop() and the loop    *)
(* thread (_process_loop, _monitor_sessions).  The two classes have the     *)
(* same code here; one pass of the loop body is one tick.                   *)

LoopThreads == 1..MaxLoopThreads

LoopStopped == [running |-> FALSE, caller |-> "idle", thread |-> 0,
                th |-> [t \in LoopThreads |-> "none"],
                wake |-> [t \in LoopThreads |-> 0]]

\* the loop thread t is in a time.sleep that has not run out; the clock of
\* the model stops at MaxTime, and a sleep is over by then
Asleep(t) == loop.th[t] = "sleep" /\ now < loop.wake[t] /\ now < MaxTime

\* threads that do not exist or have ended
FreeThreads == {t \in LoopThreads : loop.th[t] \in {"none", "done"}}

\* start(): returns at once when self.running, else sets self.running and
\* starts a new thread, kept in processor_thread / monitoring_thread
loop_start ==
    /\ loop.caller = "idle"
    /\ ~loop.running
    /\ FreeThreads # {}
    /\ LET t == CHOOSE x \in FreeThreads : \A y \in FreeThreads : x <= y
       IN  loop' = [loop EXCEPT !.running = TRUE, !.thread = t, !.th[t] = "test"]
    /\ UNCHANGED now

\* stop(): self.running = False, then join(timeout=10) on the thread kept
\* by the last start(), if any
loop_stop ==
    /\ loop.caller = "idle"
    /\ loop' = [loop EXCEPT !.running = FALSE,
                            !.caller = IF loop.thread # 0 THEN "joining" ELSE "idle"]
    /\ UNCHANGED now

\* join(timeout=10) returns: the thread has ended, or the 10 seconds are
\* over while the thread is in its time.sleep of 300 seconds (one unit of
\* the clock)
loop_stop_join ==
    /\ loop.caller = "joining"
    /\ (loop.th[loop.thread] = "done" \/ Asleep(loop.thread))
    /\ loop' = [loop EXCEPT !.caller = "idle"]
    /\ UNCHANGED now

\* the loop thread tests `while self.running`
process_loop_test(t) ==
    /\ loop.th[t] = "test"
    /\ loop' = [loop EXCEPT !.th[t] = IF loop.running THEN "tick" ELSE "done"]
    /\ UNCHANGED now

\* the loop body up to the sleep: _process_recovery_jobs() or
\* _check_session_timeout(), then time.sleep(recovery_interval) or
\* time.sleep(monitoring_interval) begins
process_loop_tick(t) ==
    /\ loop.th[t] = "tick"
    /\ loop' = [loop EXCEPT !.th[t] = "sleep", !.wake[t] = now + recovery_interval]
    /\ UNCHANGED now

\* time.sleep(...) returns
process_loop_wake(t) ==
    /\ loop.th[t] = "sleep"
    /\ ~Asleep(t)
    /\ loop' = [loop EXCEPT !.th[t] = "test", !.wake[t] = 0]
    /\ UNCHANGED now

----------------------------------------------------------------------------
(* MCP envelope: mcp_envelope.py *)

\* Optional values and dictionary entries: the empty set for None or a
\* missing key, a singleton for a value
Opt(S) == {{}} \cup {{v} : v \in S}
The(s) == CHOOSE v \in s : TRUE

\* class EnvelopeSchema
EnvelopeSchema == {"mcp_envelope_v1", "event_v1", "verified_event_v1",
                   "incident_brief_v1", "triaged_incident_v1", "dispatch_v1"}

\* the values the fields of an envelope or of a dictionary take here:
\* "summary_generation_v1" is a schema the pipeline sends that is not a
\* member of EnvelopeSchema; a payload is a dict or another object (list,
\* None) with its keys or elements
SchemaValues == {"mcp_envelope_v1", "event_v1", "summary_generation_v1"}
SessionIdValues == {"", "s1"}
SourceAgentValues == {"", "agent"}
Payloads == [isdict : BOOLEAN, keys : SUBSET {"type", "data", "metadata"}]
Metadatas == {{}, {"trace"}}

\* datetime: the second, the microsecond and the tzinfo stand for the value
DateTimes == [second : {0}, microsecond : {0, 1}, tzinfo : {"none", "utc"}]

\* the text of a timestamp: seconds, the fraction (Null when the text has
\* none) and the UTC offset (empty when the text has none); seconds of Null
\* is a text that is no ISO date
IsoTexts == [secs : {0}, micros : {Null, 0, 1}, offset : {"", "+00:00"}]
               \cup {[secs |-> Null, micros |-> Null, offset |-> ""]}

\* datetime.isoformat(timespec='seconds'): the fraction is never written
isoformat_seconds(dt) ==
    [secs |-> dt.second, micros |-> Null,
     offset |-> IF dt.tzinfo = "none" THEN "" ELSE "+00:00"]

\* datetime.isoformat(): the fraction is written unless microsecond is 0
isoformat(dt) ==
    [secs |-> dt.second,
     micros |-> IF dt.microsecond = 0 THEN Null ELSE dt.microsecond,
     offset |-> IF dt.tzinfo = "none" THEN "" ELSE "+00:00"]

\* datetime.fromisoformat: TypeError for an argument that is no str,
\* ValueError for a text that is no ISO date
fromisoformat(t) ==
    IF ~t.str
    THEN [value |-> {}, raised |-> {"fromisoformat: argument must be str"}]
    ELSE IF t.text.secs = Null
         THEN [value |-> {}, raised |-> {"Invalid isoformat string"}]
         ELSE [value |-> {[second |-> t.text.secs,
                           microsecond |-> IF t.text.micros = Null THEN 0
                                           ELSE t.text.micros,
                           tzinfo |-> IF t.text.offset = "" THEN "none"
                                      ELSE "utc"]},
               raised |-> {}]

\* the timestamp entries of a dictionary: a str or another object
Timestamps == [str : {TRUE}, text : IsoTexts]
                 \cup {[str |-> FALSE, text |-> [secs |-> Null, micros |-> Null, offset |-> ""]]}

\* the arguments of parse_envelope: dictionaries with any of the six keys,
\* and an object that is no dictionary
NotADict == [dict |-> FALSE, schema |-> {}, session_id |-> {}, timestamp |-> {},
             source_agent |-> {}, payload |-> {}, metadata |-> {}]
EnvelopeDicts ==
    [dict : {TRUE}, schema : Opt(SchemaValues), session_id : Opt(SessionIdValues),
     timestamp : Opt(Timestamps), source_agent : Opt(SourceAgentValues),
     payload : Opt(Payloads), metadata : Opt(Metadatas)]
        \cup {NotADict}

\* the MCPEnvelope objects
Envelopes ==
    [schema : SchemaValues, session_id : SessionIdValues, timestamp : DateTimes,
     source_agent : SourceAgentValues, payload : Payloads, metadata : Metadatas]

\* MCPEnvelope.to_dict
to_dict(e) ==
    [dict |-> TRUE, schema |-> {e.schema}, session_id |-> {e.session_id},
     timestamp |-> {[str |-> TRUE, text |-> isoformat(e.timestamp)]},
     source_agent |-> {e.source_agent}, payload |-> {e.payload},
     metadata |-> {e.metadata}]

\* MCPEnvelope.from_dict: ValueError when a required key is missing (TypeError
\* when the argument is no dictionary), the exception of fromisoformat, else
\* the envelope; metadata defaults to {}
from_dict(data) ==
    IF ~data.dict
    THEN [envelope |-> {}, raised |-> {"argument is not a dictionary"}]
    ELSE IF \/ data.schema = {} \/ data.session_id = {} \/ data.timestamp = {}
            \/ data.source_agent = {} \/ data.payload = {}
         THEN [envelope |-> {}, raised |-> {"Missing required fields"}]
         ELSE LET ts == fromisoformat(The(data.timestamp))
              IN  IF ts.raised # {}
                  THEN [envelope |-> {}, raised |-> ts.raised]
                  ELSE [envelope |->
                            {[schema |-> The(data.schema),
                              session_id |-> The(data.session_id),
                              timestamp |-> The(ts.value),
                              source_agent |-> The(data.source_agent),
                              payload |-> The(data.payload),
                              metadata |-> IF data.metadata = {} THEN {}
                                           ELSE The(data.metadata)]},
                        raised |-> {}]

\* MCPEnvelope.validate_schema
validate_schema(e) == e.schema \in EnvelopeSchema

\* MCPEnvelope.validate without the check of the 'data' key
validate_no_data(e) ==
    IF ~validate_schema(e) THEN [is_valid |-> FALSE, error |-> {"Invalid schema"}]
    ELSE IF e.session_id = "" THEN [is_valid |-> FALSE, error |-> {"Missing session_id"}]
    ELSE IF e.source_agent = "" THEN [is_valid |-> FALSE, error |-> {"Missing source_agent"}]
    ELSE IF e.payload.keys = {} THEN [is_valid |-> FALSE, error |-> {"Missing payload"}]
    ELSE IF ~e.payload.isdict
         THEN [is_valid |-> FALSE, error |-> {"Payload must be a dictionary"}]
    ELSE IF "type" \notin e.payload.keys
         THEN [is_valid |-> FALSE, error |-> {"Payload missing 'type' field"}]
    ELSE [is_valid |-> TRUE, error |-> {}]

\* MCPEnvelope.validate: the checks in the order of the code
validate(e) ==
    IF ~validate_schema(e) THEN [is_valid |-> FALSE, error |-> {"Invalid schema"}]
    ELSE IF e.session_id = "" THEN [is_valid |-> FALSE, error |-> {"Missing session_id"}]
    ELSE IF e.source_agent = "" THEN [is_valid |-> FALSE, error |-> {"Missing source_agent"}]
    ELSE IF e.payload.keys = {} THEN [is_valid |-> FALSE, error |-> {"Missing payload"}]
    ELSE IF ~e.payload.isdict
         THEN [is_valid |-> FALSE, error |-> {"Payload must be a dictionary"}]
    ELSE IF "type" \notin e.payload.keys
         THEN [is_valid |-> FALSE, error |-> {"Payload missing 'type' field"}]
    ELSE IF "data" \notin e.payload.keys
         THEN [is_valid |-> FALSE, error |-> {"Payload missing 'data' field"}]
    ELSE [is_valid |-> TRUE, error |-> {}]

\* parse_envelope: (envelope, None) or (None, error_msg); every exception of
\* from_dict is caught and returned as str(e)
parse_envelope(data) ==
    LET r == from_dict(data)
    IN  IF r.raised # {}
        THEN [envelope |-> {}, error |-> r.raised]
        ELSE LET v == validate(The(r.envelope))
             IN  IF ~v.is_valid
                 THEN [envelope |-> {}, error |-> v.error]
                 ELSE [envelope |-> r.envelope, error |-> {}]

\* the schema and the payload keys of the envelope each stage method of
\* the pipeline builds, in the order of Stages
StageSchemas == <<"event_ingestion_v1", "event_verification_v1",
                  "summary_generation_v1", "incident_triage_v1",
                  "incident_dispatch_v1">>
StagePayloadKeys == <<{"event_data", "operation"}, {"event", "operation"},
                      {"event", "memory_context", "operation"},
                      {"brief", "operation"}, {"incident", "operation"}>>

\* datetime.utcnow(): a naive datetime
UtcNows == {dt \in DateTimes : dt.tzinfo = "none"}

\* agent_utils.create_mcp_envelope: the dictionary it returns; session_id
\* is the argument or, when that is None, a fresh uuid4; there is no
\* metadata key
create_mcp_envelope(schema, source_agent, payload, session_id, utcnow) ==
    [dict |-> TRUE, schema |-> {schema},
     session_id |-> IF session_id = {} THEN {"uuid4"} ELSE session_id,
     timestamp |-> {[str |-> TRUE, text |-> isoformat(utcnow)]},
     source_agent |-> {source_agent}, payload |-> {payload}, metadata |-> {}]

\* the envelope the k-th stage method builds for session sid
stage_envelope(k, sid, utcnow) ==
    create_mcp_envelope(StageSchemas[k], "integration_pipeline",
                        [isdict |-> TRUE, keys |-> StagePayloadKeys[k]],
                        {ToString(sid)}, utcnow)

NoParse == [op |-> "none", data |-> NotADict, sent |-> {},
            result |-> [envelope |-> {}, error |-> {}]]

\* a call parse_envelope(data)
parse_envelope_call(data) ==
    /\ mcp' = [op |-> "parse", data |-> data, sent |-> {},
               result |-> parse_envelope(data)]
    /\ UNCHANGED <<now, pend, calc>>

\* a call parse_envelope(e.to_dict()) for an envelope that validate() accepts
parse_envelope_roundtrip(e) ==
    /\ validate(e).is_valid
    /\ mcp' = [op |-> "roundtrip", data |-> to_dict(e), sent |-> {e},
               result |-> parse_envelope(to_dict(e))]
    /\ UNCHANGED <<now, pend, calc>>

\* process_event_stage with the envelope of the request: a stage method
\* that has an endpoint builds its envelope with create_mcp_envelope and
\* sends it; the receiving agent reads it with parse_envelope
process_event_stage_sends(w, avail, outs, data, utcnow) ==
    /\ process_event_stage(w, avail, "nothing", outs, data)
    /\ mcp' = IF avail
              THEN LET env == stage_envelope(plProc[w].stage, plProc[w].sid, utcnow)
                   IN  [op |-> "stage", data |-> env, sent |-> {},
                        result |-> parse_envelope(env)]
              ELSE mcp
    /\ UNCHANGED <<pend, calc>>

----------------------------------------------------------------------------
Tick ==
    /\ now < MaxTime
    /\ now' = now + 1

Init ==
    /\ now = 0
    /\ dlq = [id \in EventIds |-> NoRow]
    /\ dlqNext = 1
    /\ rh = RhIdle
    /\ rhStats = [calls |-> 0, total_retries |-> 0, successful_retries |-> 0,
                  failed_retries |-> 0]
    /\ rhSends = 0
    /\ rhEnqueued = 0
    /\ rp = [pc |-> "sleep", wake |-> 0, pending |-> <<>>]
    /\ rpLog = [id \in EventIds |-> NoLog]
    /\ cbConfig = [set |-> FALSE]
    /\ breakers = [t \in Targets |-> NoBreaker]
    /\ cbLock = [t \in Targets |-> 0]
    /\ cbStats = [calls |-> 0, breakers_created |-> 0, breakers_opened |-> 0,
                  breakers_recovered |-> 0, requests_blocked |-> 0,
                  total_failures |-> 0]
    /\ cbThread = [th \in Threads |-> CbIdle]
    /\ cbHist = [t \in Targets |-> [invoked |-> 0, fails |-> 0]]
    /\ smConfig = [set |-> FALSE]
    /\ smActive = [id \in SessionIds |-> NoSession]
    /\ smArchive = [id \in SessionIds |-> NoArchive]
    /\ smNext = 1
    /\ smStats = [archived_sessions |-> 0, restored_sessions |-> 0,
                  expired_sessions |-> 0]
    /\ smRestore = [th \in Threads |-> [pc |-> "idle", id |-> 0,
                                        last_activity |-> Null,
                                        restore_count |-> 0]]
    /\ smScan = [pc |-> "sleep", wake |-> 0, todo |-> {}]
    /\ smCall = NoCall
    /\ PlInit
    /\ mcp = NoParse
    /\ pend = NoSelect
    /\ calc = NoCalc
    /\ plRun = PlStopped
    /\ loop = LoopStopped
    /\ cbTrail = [t \in Targets |-> NoTrail]

\* The retry handler on its own.
NextRetry ==
    \/ \E url \in Urls, n \in 0..MaxRetries, enabled \in BOOLEAN :
          execute_with_retry_begin(url, n, enabled) /\ UNCHANGED <<rpVars, cbVars, smVars, plVars, fnVars, lcVars>>
    \/ \E outs \in PostSeqs(rh.max_retries) :
          execute_with_retry_attempt(outs) /\ UNCHANGED <<rpVars, cbVars, smVars, plVars, fnVars, lcVars>>
    \/ execute_with_retry_return /\ UNCHANGED <<rpVars, cbVars, smVars, plVars, fnVars, lcVars>>

SpecRetry == Init /\ [][NextRetry]_vars

\* The circuit breaker manager called by two threads, wrapping functions
\* that return or raise.
NextBreaker ==
    \/ \E threshold \in 1..MaxThreshold, timeout \in 1..MaxTimeout :
          cb_manager_init(threshold, timeout) /\ UNCHANGED <<rpVars, smVars, plVars, fnVars, lcVars>>
    \/ \E th \in Threads, target \in Targets :
          /\ execute_with_circuit_breaker_begin(th, target, "raw", 0)
          /\ UNCHANGED <<rpVars, smVars, plVars, fnVars, lcVars>>
    \/ \E th \in Threads, raised \in BOOLEAN :
          breaker_call_return(th, raised) /\ UNCHANGED <<rpVars, smVars, plVars, fnVars, lcVars>>
    \/ \E th \in Threads :
          execute_with_circuit_breaker_end(th) /\ UNCHANGED <<rpVars, smVars, plVars, fnVars, lcVars>>
    \/ Tick /\ UNCHANGED <<erVars, smVars, plVars, fnVars, lcVars>>

SpecBreaker == Init /\ [][NextBreaker]_vars

\* The same callers and targets under one configuration.
NextBreakerTargets ==
    \/ cb_manager_init(MaxThreshold, MaxTimeout)
          /\ UNCHANGED <<rpVars, smVars, plVars, fnVars, lcVars>>
    \/ \E th \in Threads, target \in Targets :
          /\ execute_with_circuit_breaker_begin(th, target, "raw", 0)
          /\ UNCHANGED <<rpVars, smVars, plVars, fnVars, lcVars>>
    \/ \E th \in Threads, raised \in BOOLEAN :
          breaker_call_return(th, raised) /\ UNCHANGED <<rpVars, smVars, plVars, fnVars, lcVars>>
    \/ \E th \in Threads :
          execute_with_circuit_breaker_end(th) /\ UNCHANGED <<rpVars, smVars, plVars, fnVars, lcVars>>
    \/ Tick /\ UNCHANGED <<erVars, smVars, plVars, fnVars, lcVars>>

SpecBreakerTargets == Init /\ [][NextBreakerTargets]_vars

\* Two callers of one target under one configuration, with the history of
\* the breaker.
NextBreakerHistory ==
    \/ cb_manager_init(MaxThreshold, MaxTimeout)
          /\ UNCHANGED <<rpVars, smVars, plVars, fnVars, lcVars>>
    \/ \E th \in Threads :
          /\ execute_with_circuit_breaker_begin(th, "triage", "raw", 0)
          /\ UNCHANGED <<rpVars, smVars, plVars, fnVars, lcVars>>
    \/ \E th \in Threads, raised \in BOOLEAN :
          breaker_call_return_traced(th, raised)
          /\ UNCHANGED <<rpVars, smVars, plVars, fnVars, plRun, loop>>
    \/ \E th \in Threads :
          execute_with_circuit_breaker_end(th) /\ UNCHANGED <<rpVars, smVars, plVars, fnVars, lcVars>>
    \/ Tick /\ UNCHANGED <<erVars, smVars, plVars, fnVars, lcVars>>

SpecBreakerHistory == Init /\ [][NextBreakerHistory]_vars

\* One thread dispatching stage calls to one target as
\* execute_with_circuit_breaker(target, retry_handler.execute_with_retry, request).
NextBreakerRetry ==
    \/ \E threshold \in 1..MaxThreshold, timeout \in 1..MaxTimeout :
          cb_manager_init(threshold, timeout) /\ UNCHANGED <<rpVars, smVars, plVars, fnVars, lcVars>>
    \/ \E n \in 0..MaxRetries :
          /\ execute_with_circuit_breaker_begin(1, "triage", "retry", n)
          /\ UNCHANGED <<rpVars, smVars, plVars, fnVars, lcVars>>
    \/ \E outs \in PostSeqs(rh.max_retries) :
          execute_with_retry_attempt(outs) /\ UNCHANGED <<rpVars, cbVars, smVars, plVars, fnVars, lcVars>>
    \/ breaker_call_retry_return(1) /\ UNCHANGED <<rpVars, smVars, plVars, fnVars, lcVars>>
    \/ execute_with_circuit_breaker_end(1) /\ UNCHANGED <<rpVars, smVars, plVars, fnVars, lcVars>>
    \/ Tick /\ UNCHANGED <<erVars, smVars, plVars, fnVars, lcVars>>

SpecBreakerRetry == Init /\ [][NextBreakerRetry]_vars

\* The recovery loop, fed by retry calls that exhaust their attempts.
NextRecovery ==
    \/ \E n \in 0..MaxRetries :
          /\ dlqNext <= MaxEvents
          /\ enqueue_exhausted("http://localhost:8004", n)
          /\ UNCHANGED <<rhVars, rpVars, cbVars, smVars, plVars, fnVars, lcVars>>
    \/ recovery_tick_begin /\ UNCHANGED <<rhVars, cbVars, smVars, plVars, fnVars, lcVars>>
    \/ \E outs \in PostRuns(1), raises \in BOOLEAN :
          recovery_process_row(outs, raises) /\ UNCHANGED <<rhVars, cbVars, smVars, plVars, fnVars, lcVars>>
    \/ recovery_tick_end /\ UNCHANGED <<rhVars, cbVars, smVars, plVars, fnVars, lcVars>>
    \/ Tick /\ UNCHANGED <<erVars, smVars, plVars, fnVars, lcVars>>

SpecRecovery == Init /\ [][NextRecovery]_vars

\* The recovery loop when a statement of a pass may raise.
NextRecoveryFaults ==
    \/ /\ dlqNext <= MaxTickRows
       /\ enqueue_exhausted("http://localhost:8004", MaxRetries)
       /\ UNCHANGED <<rhVars, rpVars, cbVars, smVars, plVars, fnVars, lcVars>>
    \/ recovery_tick_begin /\ UNCHANGED <<rhVars, cbVars, smVars, plVars, fnVars, lcVars>>
    \/ \E outs \in PostRuns(1), raises \in BOOLEAN :
          recovery_process_row(outs, raises) /\ UNCHANGED <<rhVars, cbVars, smVars, plVars, fnVars, lcVars>>
    \/ recovery_row_raise /\ UNCHANGED <<rhVars, cbVars, smVars, plVars, fnVars, lcVars>>
    \/ recovery_tick_end /\ UNCHANGED <<rhVars, cbVars, smVars, plVars, fnVars, lcVars>>
    \/ Tick /\ UNCHANGED <<erVars, smVars, plVars, fnVars, lcVars>>

SpecRecoveryFaults == Init /\ [][NextRecoveryFaults]_vars

\* The recovery loop over an event of a request with any max_retries.
NextRecoveryAny ==
    \/ \E n \in 0..MaxRequestRetries :
          /\ dlqNext <= MaxEvents
          /\ enqueue_exhausted("http://localhost:8004", n)
          /\ UNCHANGED <<rhVars, rpVars, cbVars, smVars, plVars, fnVars, lcVars>>
    \/ recovery_tick_begin /\ UNCHANGED <<rhVars, cbVars, smVars, plVars, fnVars, lcVars>>
    \/ \E outs \in PostRuns(1) :
          recovery_process_row(outs, FALSE)
          /\ UNCHANGED <<rhVars, cbVars, smVars, plVars, fnVars, lcVars>>
    \/ recovery_tick_end /\ UNCHANGED <<rhVars, cbVars, smVars, plVars, fnVars, lcVars>>
    \/ Tick /\ UNCHANGED <<erVars, smVars, plVars, fnVars, lcVars>>

SpecRecoveryAny == Init /\ [][NextRecoveryAny]_vars

\* The steps of the thread running _process_loop, no statement raising.
RecoveryLoopStep ==
    \/ recovery_tick_begin /\ UNCHANGED <<rhVars, cbVars, smVars, plVars, fnVars, lcVars>>
    \/ \E outs \in PostRuns(1) :
          recovery_process_row(outs, FALSE)
          /\ UNCHANGED <<rhVars, cbVars, smVars, plVars, fnVars, lcVars>>
    \/ recovery_tick_end /\ UNCHANGED <<rhVars, cbVars, smVars, plVars, fnVars, lcVars>>
    \/ recovery_sleep_returns /\ UNCHANGED <<rhVars, cbVars, smVars, plVars, fnVars, lcVars>>

ClockStep == Tick /\ UNCHANGED <<erVars, smVars, plVars, fnVars, lcVars>>

\* The recovery loop running for ever (processor.start() has been called and
\* stop() is not), next to callers whose requests are dead-lettered.  The
\* thread of the loop is scheduled again and again, and time passes.
NextRecoveryLive ==
    \/ \E n \in {0, MaxRetries} :
          /\ dlqNext <= MaxEvents
          /\ enqueue_exhausted("http://localhost:8004", n)
          /\ UNCHANGED <<rhVars, rpVars, cbVars, smVars, plVars, fnVars, lcVars>>
    \/ RecoveryLoopStep
    \/ ClockStep

SpecRecoveryLive ==
    Init /\ [][NextRecoveryLive]_vars /\ WF_vars(RecoveryLoopStep) /\ WF_vars(ClockStep)

\* The session manager: callers creating, archiving and restoring sessions
\* while the monitor thread runs.
NextSession ==
    \/ \E timeout \in 0..MaxSessionTimeout :
          session_manager_init(timeout) /\ UNCHANGED <<erVars, plVars, fnVars, lcVars>>
    \/ create_session /\ UNCHANGED <<erVars, plVars, fnVars, lcVars>>
    \/ \E id \in SessionIds :
          archive_session_manual(id) /\ UNCHANGED <<erVars, plVars, fnVars, lcVars>>
    \/ \E th \in Threads, id \in SessionIds :
          restore_session_read(th, id) /\ UNCHANGED <<erVars, plVars, fnVars, lcVars>>
    \/ \E th \in Threads :
          restore_session_activate(th) /\ UNCHANGED <<erVars, plVars, fnVars, lcVars>>
    \/ check_session_timeout_collect /\ UNCHANGED <<erVars, plVars, fnVars, lcVars>>
    \/ \E id \in SessionIds :
          check_session_timeout_archive(id) /\ UNCHANGED <<erVars, plVars, fnVars, lcVars>>
    \/ monitor_sessions_sleep /\ UNCHANGED <<erVars, plVars, fnVars, lcVars>>
    \/ Tick /\ UNCHANGED <<erVars, smVars, plVars, fnVars, lcVars>>

SpecSession == Init /\ [][NextSession]_vars

\* The session manager with one caller at a time: the calls of NextSession
\* and, besides, activity updates and restores of ids that are not archived.
NextSessionOps ==
    \/ \E timeout \in 1..MaxSessionTimeout :
          session_manager_init(timeout) /\ UNCHANGED <<erVars, plVars, fnVars, lcVars>>
    \/ create_session /\ UNCHANGED <<erVars, plVars, fnVars, lcVars>>
    \/ \E id \in SessionIds :
          update_session_activity(id) /\ UNCHANGED <<erVars, plVars, fnVars, lcVars>>
    \/ \E id \in SessionIds :
          archive_session_manual(id) /\ UNCHANGED <<erVars, plVars, fnVars, lcVars>>
    \/ \E id \in SessionIds :
          restore_session_read(1, id) /\ UNCHANGED <<erVars, plVars, fnVars, lcVars>>
    \/ restore_session_activate(1) /\ UNCHANGED <<erVars, plVars, fnVars, lcVars>>
    \/ \E id \in SessionIds :
          restore_session_missing(1, id) /\ UNCHANGED <<erVars, plVars, fnVars, lcVars>>
    \/ check_session_timeout_collect /\ UNCHANGED <<erVars, plVars, fnVars, lcVars>>
    \/ \E id \in SessionIds :
          check_session_timeout_archive(id) /\ UNCHANGED <<erVars, plVars, fnVars, lcVars>>
    \/ monitor_sessions_sleep /\ UNCHANGED <<erVars, plVars, fnVars, lcVars>>
    \/ Tick /\ UNCHANGED <<erVars, smVars, plVars, fnVars, lcVars>>

SpecSessionOps == Init /\ [][NextSessionOps]_vars

\* Callers restoring sessions at the same time: each restore_session call
\* is the archiver's SELECT, the archiver's UPDATE and the manager's
\* activation; the callers also create, archive and touch sessions.
NextSessionRestore ==
    \/ session_manager_init(MaxSessionTimeout) /\ UNCHANGED <<erVars, plVars, fnVars, lcVars>>
    \/ create_session /\ UNCHANGED <<erVars, plVars, fnVars, lcVars>>
    \/ \E id \in SessionIds :
          /\ InActive(smActive, id)
          /\ update_session_activity(id)
          /\ UNCHANGED <<erVars, plVars, fnVars, lcVars>>
    \/ \E id \in SessionIds :
          archive_session_manual(id) /\ UNCHANGED <<erVars, plVars, fnVars, lcVars>>
    \/ \E th \in Threads, id \in SessionIds :
          archiver_restore_select(th, id) /\ UNCHANGED <<erVars, plVars, fnVars, lcVars>>
    \/ \E th \in Threads :
          archiver_restore_update(th) /\ UNCHANGED <<erVars, plVars, fnVars, lcVars>>
    \/ \E th \in Threads :
          restore_session_activate(th) /\ UNCHANGED <<erVars, plVars, fnVars, lcVars>>
    \/ Tick /\ UNCHANGED <<erVars, smVars, plVars, fnVars, lcVars>>

SpecSessionRestore == Init /\ [][NextSessionRestore]_vars

\* The pipeline: one process_event caller and the session monitor thread.
NextPipeline ==
    \/ pipeline_init(MaxSessionTimeout, StageRetries) /\ UNCHANGED <<erVars, smVars, fnVars, lcVars>>
    \/ /\ plNext <= MaxPipelineSessions
       /\ process_event_begin(1)
       /\ UNCHANGED <<erVars, smVars, fnVars, lcVars>>
    \/ \E avail \in BOOLEAN :
          \E outs \in StageOuts(avail, plConfig.retry_attempts) :
             \E data \in StageDatas(avail, outs, plConfig.retry_attempts) :
                process_event_stage(1, avail, "nothing", outs, data)
                /\ UNCHANGED <<erVars, smVars, fnVars, lcVars>>
    \/ process_event_stats_load(1) /\ UNCHANGED <<erVars, smVars, fnVars, lcVars>>
    \/ process_event_stats_store(1) /\ UNCHANGED <<erVars, smVars, fnVars, lcVars>>
    \/ pipeline_check_session_timeout_collect /\ UNCHANGED <<erVars, smVars, fnVars, lcVars>>
    \/ \E id \in PlSessionIds :
          pipeline_check_session_timeout_archive(id) /\ UNCHANGED <<erVars, smVars, fnVars, lcVars>>
    \/ session_monitor_sleep /\ UNCHANGED <<erVars, smVars, fnVars, lcVars>>
    \/ Tick /\ UNCHANGED <<erVars, smVars, plVars, fnVars, lcVars>>

SpecPipeline == Init /\ [][NextPipeline]_vars

\* The pipeline from its construction: start() and the monitor thread it
\* spawns, with one process_event caller.
NextPipelineStart ==
    \/ pipeline_init(MaxSessionTimeout, StageRetries) /\ UNCHANGED <<erVars, smVars, fnVars, lcVars>>
    \/ pipeline_start_spawn /\ UNCHANGED <<erVars, smVars, fnVars, loop, cbTrail>>
    \/ pipeline_start_return /\ UNCHANGED <<erVars, smVars, fnVars, loop, cbTrail>>
    \/ session_monitor_test /\ UNCHANGED <<erVars, smVars, fnVars, loop, cbTrail>>
    \/ session_monitor_collect /\ UNCHANGED <<erVars, smVars, fnVars, loop, cbTrail>>
    \/ \E id \in PlSessionIds :
          session_monitor_archive(id) /\ UNCHANGED <<erVars, smVars, fnVars, loop, cbTrail>>
    \/ session_monitor_sleeps /\ UNCHANGED <<erVars, smVars, fnVars, loop, cbTrail>>
    \/ /\ plNext <= MaxPipelineSessions
       /\ process_event_begin(1)
       /\ UNCHANGED <<erVars, smVars, fnVars, lcVars>>
    \/ \E avail \in BOOLEAN :
          \E outs \in StageOuts(avail, plConfig.retry_attempts) :
             \E data \in StageDatas(avail, outs, plConfig.retry_attempts) :
                process_event_stage(1, avail, "nothing", outs, data)
                /\ UNCHANGED <<erVars, smVars, fnVars, lcVars>>
    \/ Tick /\ UNCHANGED <<erVars, smVars, plVars, fnVars, lcVars>>

SpecPipelineStart == Init /\ [][NextPipelineStart]_vars

\* process_event with the envelopes its stage methods send.
NextStageEnvelope ==
    \/ pipeline_init(MaxSessionTimeout, StageRetries)
          /\ UNCHANGED <<erVars, smVars, fnVars, lcVars>>
    \/ /\ plNext <= MaxPipelineSessions
       /\ process_event_begin(1)
       /\ UNCHANGED <<erVars, smVars, fnVars, lcVars>>
    \/ \E avail \in BOOLEAN, utcnow \in UtcNows :
          \E outs \in StageOuts(avail, plConfig.retry_attempts) :
             \E data \in StageDatas(avail, outs, plConfig.retry_attempts) :
                process_event_stage_sends(1, avail, outs, data, utcnow)
                /\ UNCHANGED <<erVars, smVars, lcVars>>
    \/ process_event_stats_load(1) /\ UNCHANGED <<erVars, smVars, fnVars, lcVars>>
    \/ process_event_stats_store(1) /\ UNCHANGED <<erVars, smVars, fnVars, lcVars>>
    \/ Tick /\ UNCHANGED <<erVars, smVars, plVars, fnVars, lcVars>>

SpecStageEnvelope == Init /\ [][NextStageEnvelope]_vars

\* A component's start() and stop() called one after the other by one
\* caller, and its loop threads.
NextLoop ==
    \/ loop_start /\ UNCHANGED <<erVars, smVars, plVars, fnVars, plRun, cbTrail>>
    \/ loop_stop /\ UNCHANGED <<erVars, smVars, plVars, fnVars, plRun, cbTrail>>
    \/ loop_stop_join /\ UNCHANGED <<erVars, smVars, plVars, fnVars, plRun, cbTrail>>
    \/ \E t \in LoopThreads :
          process_loop_test(t) /\ UNCHANGED <<erVars, smVars, plVars, fnVars, plRun, cbTrail>>
    \/ \E t \in LoopThreads :
          process_loop_tick(t) /\ UNCHANGED <<erVars, smVars, plVars, fnVars, plRun, cbTrail>>
    \/ \E t \in LoopThreads :
          process_loop_wake(t) /\ UNCHANGED <<erVars, smVars, plVars, fnVars, plRun, cbTrail>>
    \/ Tick /\ UNCHANGED <<erVars, smVars, plVars, fnVars, lcVars>>

SpecLoop == Init /\ [][NextLoop]_vars

\* process_event called from several threads at the same time.
NextPipelineWorkers ==
    \/ pipeline_init(MaxSessionTimeout, StageRetries) /\ UNCHANGED <<erVars, smVars, fnVars, lcVars>>
    \/ \E w \in PlWorkers :
          /\ plNext <= MaxConcurrentCalls
          /\ process_event_begin(w)
          /\ UNCHANGED <<erVars, smVars, fnVars, lcVars>>
    \/ \E w \in PlWorkers, avail \in BOOLEAN :
          \E outs \in StageOuts(avail, plConfig.retry_attempts) :
             \E data \in StageDatas(avail, outs, plConfig.retry_attempts) :
                process_event_stage(w, avail, "nothing", outs, data)
                /\ UNCHANGED <<erVars, smVars, fnVars, lcVars>>
    \/ \E w \in PlWorkers :
          process_event_stats_load(w) /\ UNCHANGED <<erVars, smVars, fnVars, lcVars>>
    \/ \E w \in PlWorkers :
          process_event_stats_store(w) /\ UNCHANGED <<erVars, smVars, fnVars, lcVars>>

SpecPipelineWorkers == Init /\ [][NextPipelineWorkers]_vars

\* process_event with every answer of the memory bank; no session monitor and
\* no passing of time.
NextPipelineMemory ==
    \/ pipeline_init(MaxSessionTimeout, StageRetries) /\ UNCHANGED <<erVars, smVars, fnVars, lcVars>>
    \/ /\ plNext <= MaxPipelineSessions
       /\ process_event_begin(1)
       /\ UNCHANGED <<erVars, smVars, fnVars, lcVars>>
    \/ \E avail \in BOOLEAN, mem \in MemoryQueries :
          \E outs \in StageOuts(avail, plConfig.retry_attempts) :
             \E data \in StageDatas(avail, outs, plConfig.retry_attempts) :
                process_event_stage(1, avail, mem, outs, data)
                /\ UNCHANGED <<erVars, smVars, fnVars, lcVars>>
    \/ process_event_stats_load(1) /\ UNCHANGED <<erVars, smVars, fnVars, lcVars>>
    \/ process_event_stats_store(1) /\ UNCHANGED <<erVars, smVars, fnVars, lcVars>>

SpecPipelineMemory == Init /\ [][NextPipelineMemory]_vars

\* one call of parse_envelope, on any dictionary or on a serialized envelope.
NextEnvelope ==
    \/ /\ mcp = NoParse
       /\ \E data \in EnvelopeDicts : parse_envelope_call(data)
       /\ UNCHANGED <<erVars, smVars, plVars, lcVars>>
    \/ /\ mcp = NoParse
       /\ \E e \in Envelopes : parse_envelope_roundtrip(e)
       /\ UNCHANGED <<erVars, smVars, plVars, lcVars>>

SpecEnvelope == Init /\ [][NextEnvelope]_vars

\* one call of get_pending_events, at any time and on any table.
NextPending ==
    \/ /\ pend = NoSelect
       /\ \E q \in SampleTables, limit \in 0..MaxLimit :
             get_pending_events_call(q, limit)
       /\ UNCHANGED <<erVars, smVars, plVars, lcVars>>
    \/ /\ pend = NoSelect
       /\ Tick
       /\ UNCHANGED <<erVars, smVars, plVars, fnVars, lcVars>>

SpecPending == Init /\ [][NextPending]_vars

\* the delays of one retry loop, for any configuration.
NextBackoff ==
    \E cfg \in RetryConfigs, frac \in TimeFractions :
       calculate_delay_call(cfg, frac) /\ UNCHANGED <<erVars, smVars, plVars, lcVars>>

SpecBackoff == Init /\ [][NextBackoff]_vars

----------------------------------------------------------------------------
(* Properties *)

\* C1: every session id that create_session has handed out is in exactly
\* one of active_sessions and the archived_sessions table, after any
\* interleaving of create, archive, restore and monitor passes.
C1_ExactlyOneStore ==
    \A id \in SessionIds :
        id < smNext => (InActive(smActive, id) # InArchive(smArchive, id))

\* C2: an execute_with_retry call with max_retries = N that failed (every
\* request to the target failed) has sent exactly N+1 transport requests and,
\* with the dead letter queue enabled, has enqueued exactly one FailedEvent.
C2_RetryBound ==
    (rh.pc = "done" /\ ~rh.success) =>
        /\ rhSends = rh.max_retries + 1
        /\ rh.dlq_enabled => rhEnqueued = 1

\* C3: a breaker whose whole history is k failing calls is CLOSED while
\* k < failure_threshold and OPEN once k = failure_threshold; no breaker is
\* OPEN with failure_count below the threshold.
C3_TripPoint ==
    \A t \in Targets :
        breakers[t] # NoBreaker =>
            /\ breakers[t].state = "OPEN" =>
                   breakers[t].failure_count >= cbConfig.failure_threshold
            /\ cbHist[t].fails # Null =>
                   /\ cbHist[t].fails < cbConfig.failure_threshold =>
                          breakers[t].state = "CLOSED"
                   /\ (cbHist[t].fails = cbConfig.failure_threshold /\ cbLock[t] = 0) =>
                          breakers[t].state = "OPEN"

\* C3 witness: a breaker with threshold 2 opened by exactly two failing calls.
C3_Witness ==
    \E t \in Targets :
        /\ cbConfig.set /\ cbConfig.failure_threshold = 2
        /\ cbHist[t].fails = 2
        /\ breakers[t].state = "OPEN"

\* A call by th enters execute_with_circuit_breaker in this step.
CbEnters(th) == cbThread[th].pc = "idle" /\ cbThread'[th].pc # "idle"

\* C4: a call on a breaker that is OPEN with now - last_failure_time below
\* the recovery timeout does not invoke the function, ends with an error, and
\* leaves the breaker's state, failure_count and last_failure_time unchanged.
C4_RejectWhileOpen ==
    [][\A th \in Threads :
         /\ CbEnters(th) =>
              LET t == cbThread'[th].target IN
              (breakers[t].state = "OPEN"
                 /\ now - breakers[t].last_failure_time < cbConfig.recovery_timeout)
              => /\ cbThread'[th].pc = "err"
                 /\ breakers'[t] = breakers[t]
                 /\ cbHist'[t].invoked = cbHist[t].invoked
         /\ (cbThread[th].pc = "err" /\ cbThread[th].rejected /\ cbThread'[th].pc = "idle")
              => breakers' = breakers /\ cbHist' = cbHist
      ]_vars

\* C4 witness: a rejected call is about to raise to its caller.
C4_Witness ==
    \E th \in Threads :
        /\ cbThread[th].pc = "err"
        /\ cbThread[th].rejected
        /\ now - breakers[cbThread[th].target].last_failure_time < cbConfig.recovery_timeout

\* C5: HALF_OPEN is entered only from OPEN, by a call made after the
\* recovery timeout has elapsed, and such a call does enter it and invokes
\* the function once; while HALF_OPEN no other invocation starts; the probe's
\* success gives CLOSED with failure_count 0 and its failure gives OPEN.
C5_HalfOpen ==
    [][\A t \in Targets :
         /\ (breakers'[t].state = "HALF_OPEN" /\ breakers[t].state # "HALF_OPEN") =>
               /\ breakers[t].state = "OPEN"
               /\ now - breakers[t].last_failure_time > cbConfig.recovery_timeout
               /\ cbHist'[t].invoked = cbHist[t].invoked + 1
         /\ \A th \in Threads :
               (CbEnters(th) /\ cbThread'[th].target = t /\ breakers[t].state = "OPEN"
                  /\ now - breakers[t].last_failure_time > cbConfig.recovery_timeout)
               => breakers'[t].state = "HALF_OPEN"
         /\ breakers[t].state = "HALF_OPEN" =>
               /\ cbHist'[t].invoked = cbHist[t].invoked
               /\ cbLock[t] # 0
               /\ cbThread'[cbLock[t]].pc = "ok" =>
                      breakers'[t].state = "CLOSED" /\ breakers'[t].failure_count = 0
               /\ cbThread'[cbLock[t]].pc = "err" => breakers'[t].state = "OPEN"
               /\ cbThread'[cbLock[t]].pc = "running" => breakers'[t] = breakers[t]
      ]_vars

\* C5 witness: a breaker that failed, was probed and is CLOSED again with a
\* zero count.
C5_Witness ==
    \E t \in Targets :
        /\ breakers[t].state = "CLOSED"
        /\ breakers[t].failure_count = 0
        /\ breakers[t].last_failure_time # Null

\* C6: when process_event has returned after a stage whose target was
\* unreachable on every attempt, the result is a failure, the session is
\* failed, and the dead letter queue holds exactly one row for that agent.
C6_StageExhaustion ==
    \A sid \in PlSessionIds :
        (plLog[sid].returned /\ plLog[sid].exhausted # "none") =>
            /\ ~plLog[sid].success
            /\ plSessions[sid].status = "failed"
            /\ Cardinality({e \in EventIds :
                              /\ dlq[e].status # "absent"
                              /\ dlq[e].target_agent = plLog[sid].exhausted}) = 1

\* C7: the stage requests of a session are sent in the order ingest,
\* verifier, summarizer, triage, dispatcher, each one only after the
\* previous response was a success, and none after a stage has failed.
C7_StageOrder ==
    \A sid \in PlSessionIds :
        LET rq == plLog[sid].requests
        IN  /\ Len(rq) <= Len(Stages)
            /\ \A i \in 1..Len(rq) :
                  /\ rq[i].stage = Stages[i]
                  /\ i < Len(rq) => rq[i].ok
            /\ (plLog[sid].returned /\ ~plLog[sid].success) =>
                  \A w \in PlWorkers : plProc[w].sid # sid

\* a process_event call that stopped at a failed request after earlier
\* stages had succeeded
C7_Witness ==
    \E sid \in PlSessionIds :
        LET rq == plLog[sid].requests
        IN  /\ plLog[sid].returned
            /\ ~plLog[sid].success
            /\ Len(rq) >= 2
            /\ Len(rq) < Len(Stages)
            /\ ~rq[Len(rq)].ok

\* C8: at the step in which process_event returns, the session is completed
\* with an incident_id if the result is a success, and failed with the error
\* recorded if it is a failure, whatever the session monitor did meanwhile.
C8_StatusAgrees ==
    [][\A sid \in PlSessionIds :
          (~plLog[sid].returned /\ plLog'[sid].returned) =>
              IF plLog'[sid].success
              THEN /\ plSessions'[sid].status = "completed"
                   /\ plSessions'[sid].incident_id # Null
              ELSE /\ plSessions'[sid].status = "failed"
                   /\ plSessions'[sid].error]_vars

\* C9: when the function wrapped by the breaker is execute_with_retry, a
\* request that exhausts its retries raises the breaker's failure_count by
\* exactly 1 and a request that succeeds by 0.
C9_OneOutcomePerStage ==
    [][\A th \in Threads :
         (cbThread[th].pc = "running" /\ cbThread[th].kind = "retry"
            /\ cbThread'[th].pc # "running")
         => LET t == cbThread[th].target IN
            breakers'[t].failure_count =
                breakers[t].failure_count + (IF rh.success THEN 0 ELSE 1)
      ]_vars

\* C10: a recovery pass that meets a row with failure_count >=
\* max_recovery_attempts marks it failed without a resend; a failed row never
\* changes, is never resent and is never among the rows a pass selected.
C10_TerminalFailed ==
    /\ [][/\ (rp.pc = "rows" /\ rp.pending # <<>> /\ rp'.pending # rp.pending
               /\ rp.pending[1].ev.failure_count >= max_recovery_attempts)
             => /\ dlq'[rp.pending[1].id].status = "failed"
                /\ rpLog'[rp.pending[1].id].resends = rpLog[rp.pending[1].id].resends
           /\ \A id \in EventIds :
                dlq[id].status = "failed" =>
                    dlq'[id] = dlq[id] /\ rpLog'[id].resends = rpLog[id].resends
         ]_vars
    /\ [](\A i \in 1..Len(rp.pending) : dlq[rp.pending[i].id].status # "failed")

\* C10 witness: a row marked failed has been passed over by a later pass.
C10_Witness ==
    \E id \in EventIds : dlq[id].status = "failed" /\ rpLog[id].skipped

\* C11: a pass of the session monitor picks exactly the active sessions
\* whose now - last_activity exceeds session_timeout at that pass, archives
\* every one of them that is still active before it sleeps again, and
\* archives no other session.
C11_TimeoutArchival ==
    [][/\ (smScan.pc = "sleep" /\ smScan'.pc = "archiving") =>
            \A id \in SessionIds :
                id \in smScan'.todo <=>
                    /\ smActive[id].status # "none"
                    /\ now - smActive[id].last_activity > smConfig.session_timeout
       /\ (smScan.pc = "archiving" /\ smScan'.pc = "archiving") =>
            \A id \in SessionIds :
                /\ (smActive[id].status # "none" /\ smActive'[id].status = "none"
                       /\ smStats'.expired_sessions # smStats.expired_sessions)
                      => id \in smScan.todo
                /\ (id \in smScan.todo /\ id \notin smScan'.todo)
                      => (smActive'[id].status = "none" /\ smArchive'[id].present)
       /\ (smScan.pc = "archiving" /\ smScan'.pc = "sleep") => smScan.todo = {}
      ]_vars

\* the monitor has archived a session that went past its timeout
C11_Witness ==
    \E id \in SessionIds :
        /\ smStats.expired_sessions > 0
        /\ smScan.pc = "sleep"
        /\ smArchive[id].present
        /\ smActive[id].status = "none"
        /\ now - smArchive[id].last_activity > smConfig.session_timeout

\* C12: restore_session on an archived id adds exactly 1 to the stored
\* restore_count, sets restored_at, and puts the session into the active set
\* with status restored; on an id without an archive row it returns the
\* not-found result and changes neither store.
C12_RestoreContract ==
    [][/\ \A th \in Threads :
            (smRestore[th].pc = "idle" /\ smRestore'[th].pc = "activate") =>
                LET id == smRestore'[th].id
                IN  /\ smArchive[id].present
                    /\ smArchive'[id].present
                    /\ smArchive'[id].restore_count = smArchive[id].restore_count + 1
                    /\ smArchive'[id].restored_at = now
                    /\ smArchive'[id].restored_at # Null
       /\ \A th \in Threads :
            (smRestore[th].pc = "activate" /\ smRestore'[th].pc = "idle") =>
                LET id == smRestore[th].id
                IN  /\ smActive'[id].status = "restored"
                    /\ smStats'.restored_sessions = smStats.restored_sessions + 1
       /\ (smCall'.op = "restore_session" /\ smCall' # smCall) =>
            /\ ~smCall'.found
            /\ smActive' = smActive
            /\ smArchive' = smArchive
      ]_vars

\* a restore has returned: the session is active again and its row counts it
C12_Witness ==
    \E id \in SessionIds :
        /\ smActive[id].status = "restored"
        /\ smArchive[id].present
        /\ smArchive[id].restore_count = 1
        /\ smArchive[id].restored_at # Null
        /\ smStats.restored_sessions = 1

\* C13: when execute_with_circuit_breaker passes an exception on, a call
\* rejected by the open breaker adds 1 to requests_blocked and nothing to
\* total_failures, and a call whose function ran and raised adds 1 to
\* total_failures and nothing to requests_blocked.
C13_BlockedApartFromFailed ==
    [][\A th \in Threads :
          (cbThread[th].pc = "err" /\ cbThread'[th].pc = "idle") =>
              IF cbThread[th].rejected
              THEN /\ cbStats'.requests_blocked = cbStats.requests_blocked + 1
                   /\ cbStats'.total_failures = cbStats.total_failures
              ELSE /\ cbStats'.total_failures = cbStats.total_failures + 1
                   /\ cbStats'.requests_blocked = cbStats.requests_blocked
      ]_vars

\* C14: recording activity for a session id that is not in the active set
\* fails with a session-not-found error.
C14_MissingSessionFails ==
    (smCall.op = "update_session_activity" /\ ~smCall.found) => smCall.raised

\* C15: once every process_event call made so far has returned,
\* incidents_created is the number of calls that returned success = true and
\* errors the number that returned success = false, so that they add up to
\* the number of calls.
C15_NoLostCount ==
    (\A sid \in PlSessionIds : sid < plNext => plLog[sid].returned) =>
        /\ plStats.incidents_created =
              Cardinality({sid \in PlSessionIds : sid < plNext /\ plLog[sid].success})
        /\ plStats.errors =
              Cardinality({sid \in PlSessionIds : sid < plNext /\ ~plLog[sid].success})
        /\ plStats.incidents_created + plStats.errors = plNext - 1

\* C16: a row whose recovery resend has succeeded is gone from the dead
\* letter queue from that step on; no row ever has status recovered, and a
\* row that was removed is not among the rows a later pass works on.
C16_RecoveredRowDeleted ==
    /\ \A id \in EventIds : dlq[id].status # "recovered"
    /\ \A id \in EventIds : rpLog[id].recovered => dlq[id] = NoRow
    /\ \A i \in 1..Len(rp.pending) : ~rpLog[rp.pending[i].id].recovered

\* a resend has succeeded and a later pass has started
C16_Witness ==
    \E id \in EventIds :
        /\ rpLog[id].recovered
        /\ rpLog[id].resends >= 1
        /\ dlq[id] = NoRow
        /\ rp.pc = "rows"

\* C17: an exception while the recovery loop processes one row does not
\* keep the other rows of the same pass from being processed: when a pass
\* ends, no selected row other than the one being processed is left.
C17_RowsSurviveException ==
    [][(rp.pc = "rows" /\ rp'.pc = "sleep") => Len(rp.pending) <= 1]_vars


\* C18: when the memory bank query of a process_event call raises, the
\* summarizer request is built with the empty memory context and is still
\* sent, and the call goes on to the triage stage unless that request itself
\* fails or brings no data: the session is not failed by the lookup.
C18_MemoryFailureNonFatal ==
    [][\A sid \in PlSessionIds :
          (/\ plLog[sid].memory = NoMemory
           /\ plLog'[sid].memory.query = "raise")
          => LET rq == plLog'[sid].requests
             IN  /\ plLog'[sid].memory.context = EmptyContext
                 /\ Len(rq) = Len(plLog[sid].requests) + 1
                 /\ rq[Len(rq)].stage = "summarizer"
                 /\ (rq[Len(rq)].ok /\ rq[Len(rq)].data)
                    => /\ plSessions'[sid].status = "active"
                       /\ \E w \in PlWorkers :
                             /\ plProc'[w].pc = "stage"
                             /\ plProc'[w].sid = sid
                             /\ Stages[plProc'[w].stage] = "triage"]_vars

C18_Witness ==
    \E sid \in PlSessionIds :
        /\ plLog[sid].memory.query = "raise"
        /\ plSessions[sid].status = "completed"
        /\ Len(plLog[sid].requests) = Len(Stages)

\* C19: parse_envelope returns either an envelope and no error, the envelope
\* having a non-empty session_id and source_agent, a schema of EnvelopeSchema
\* and a payload with both 'type' and 'data', or no envelope and an error
\* message; never both and never neither.
C19_ParseAllOrNothing ==
    mcp.op = "parse" =>
        \/ /\ mcp.result.error = {}
           /\ Cardinality(mcp.result.envelope) = 1
           /\ \A e \in mcp.result.envelope :
                 /\ e.session_id # ""
                 /\ e.source_agent # ""
                 /\ e.schema \in EnvelopeSchema
                 /\ {"type", "data"} \subseteq e.payload.keys
        \/ /\ mcp.result.envelope = {}
           /\ Cardinality(mcp.result.error) = 1
           /\ "" \notin mcp.result.error

C19_Witness ==
    /\ mcp.op = "parse"
    /\ mcp.data.dict
    /\ mcp.data.schema # {} /\ mcp.data.session_id # {} /\ mcp.data.timestamp # {}
    /\ mcp.data.source_agent # {} /\ mcp.data.payload # {}
    /\ \A p \in mcp.data.payload : p.isdict /\ p.keys = {"type"}
    /\ mcp.result.envelope = {}
    /\ mcp.result.error = {"Payload missing 'data' field"}

\* C20: for every envelope e that validate() accepts, parse_envelope of
\* e.to_dict() returns no error and an envelope equal to e in schema,
\* session_id, timestamp, source_agent, payload and metadata.
C20_RoundTrip ==
    mcp.op = "roundtrip" =>
        /\ mcp.result.error = {}
        /\ mcp.result.envelope = mcp.sent

C20_Witness ==
    /\ mcp.op = "roundtrip"
    /\ \E e \in mcp.sent : /\ e.timestamp.microsecond # 0
                          /\ e.timestamp.tzinfo = "utc"
                          /\ e.metadata # {}
    /\ mcp.result.envelope # {}

\* C21: in one recovery pass, at most one transport request is sent for one
\* dead letter row, whatever that request does.
C21_SingleShotResend ==
    \A id \in EventIds : rpLog[id].posts <= 1

\* C22: a session of the pipeline's active set whose status is completed or
\* failed and whose last_activity is older than the session timeout is
\* collected for archival by the next pass of the timeout scanner, as a
\* session with status active is.
C22_TerminalSessionsArchived ==
    [][(plScan.pc = "sleep" /\ plScan'.pc = "archiving")
       => \A id \in PlSessionIds :
             (/\ plSessions[id].where = "active"
              /\ plSessions[id].status \in {"completed", "failed"}
              /\ now - plSessions[id].last_activity > plConfig.session_timeout)
             => id \in plScan'.todo]_vars

\* C23: once process_event has returned, the event log of its session has
\* at least one entry when at least one stage of the run completed.
C23_StageCompletionsRecorded ==
    \A sid \in PlSessionIds :
        (/\ plLog[sid].returned
         /\ plSessions[sid].where = "active"
         /\ \E i \in 1..Len(plLog[sid].requests) :
               plLog[sid].requests[i].ok /\ plLog[sid].requests[i].data)
        => plSessions[sid].events >= 1

\* C24: get_pending_events(limit) returns, each once, rows whose status is
\* pending, or retrying with retry_after <= now, in ascending order of
\* last_failure; it returns `limit` of them, or all when there are fewer, and
\* no row left out is older than a row returned.  Rows that are failed, or
\* retrying with a later retry_after, are not returned.
PendingOrDue(row, t) ==
    \/ row.status = "pending"
    \/ row.status = "retrying" /\ row.retry_after # Null /\ row.retry_after <= t

C24_PendingSelection ==
    pend.op = "get_pending_events" =>
        LET q == pend.table
            s == pend.result
            elig == {id \in EventIds : q[id] # NoRow /\ PendingOrDue(q[id], pend.t)}
            got == {s[i] : i \in 1..Len(s)}
        IN  /\ got \subseteq elig
            /\ Cardinality(got) = Len(s)
            /\ Len(s) = Min(pend.limit, Cardinality(elig))
            /\ \A i \in 1..Len(s) : \A j \in (i + 1)..Len(s) :
                  q[s[i]].last_failure <= q[s[j]].last_failure
            /\ \A id \in elig \ got : \A k \in got :
                  q[k].last_failure <= q[id].last_failure
            /\ \A id \in got :
                  /\ q[id].status # "failed"
                  /\ q[id].status = "retrying" => q[id].retry_after <= pend.t

C24_Witness ==
    /\ pend.op = "get_pending_events"
    /\ Len(pend.result) = pend.limit
    /\ pend.limit >= 1
    /\ \E id \in EventIds : /\ pend.table[id].status = "pending"
                           /\ \A i \in 1..Len(pend.result) : pend.result[i] # id
    /\ \E id \in EventIds : /\ pend.table[pend.result[1]].status = "retrying"
                           /\ pend.table[pend.result[1]].last_failure
                                 < pend.table[id].last_failure

\* C26: for a configuration with backoff_multiplier >= 1, the delays before
\* jitter min(initial_delay * backoff_multiplier^a, max_delay) of the attempts
\* a = 0, 1, ... of a retry loop never decrease and never exceed max_delay,
\* and the delay the loop sleeps is never below the floor of 100 ms.
C26_BackoffDelays ==
    calc.op = "_calculate_delay" =>
        /\ \A i \in 1..Len(calc.bases) : \A j \in i..Len(calc.bases) :
              calc.bases[i] <= calc.bases[j]
        /\ \A i \in 1..Len(calc.bases) : calc.bases[i] <= calc.config.max_delay
        /\ calc.slept >= min_delay

C26_Witness ==
    /\ calc.op = "_calculate_delay"
    /\ calc.attempt = MaxAttempt
    /\ calc.bases[1] < calc.bases[2]
    /\ calc.bases[Len(calc.bases)] = calc.config.max_delay
    /\ calc.config.initial_delay * Pow(calc.config.backoff_multiplier, calc.attempt)
          > calc.config.max_delay
    /\ calc.slept = min_delay

\* C25: a call on an OPEN breaker made when now - last_failure_time equals
\* the recovery timeout is not rejected: the breaker moves to HALF_OPEN and
\* the function is invoked.
C25_BoundaryAdmits ==
    [][\A th \in Threads :
         CbEnters(th) =>
            LET t == cbThread'[th].target IN
            (breakers[t].state = "OPEN"
               /\ now - breakers[t].last_failure_time = cbConfig.recovery_timeout)
            => /\ cbThread'[th].pc = "running"
               /\ breakers'[t].state = "HALF_OPEN"
               /\ cbHist'[t].invoked = cbHist[t].invoked + 1]_vars

\* C28: there is one breaker per target that has been called, and a step of
\* a call on one target (admission, rejection, return or raise of the
\* function) leaves the breaker of every other target as it was.
C28_BreakersPerTarget ==
    [][/\ cbStats'.breakers_created
             = Cardinality({t \in Targets : breakers'[t] # NoBreaker})
       /\ \A th \in Threads :
             cbThread'[th] # cbThread[th] =>
                LET t == IF cbThread[th].pc = "idle" THEN cbThread'[th].target
                         ELSE cbThread[th].target
                IN  \A u \in Targets \ {t} : breakers'[u] = breakers[u]]_vars

C28_Witness ==
    /\ breakers["triage"].state = "OPEN"
    /\ breakers["dispatcher"].state = "CLOSED"
    /\ breakers["dispatcher"].failure_count = 1
    /\ \E th \in Threads : cbThread[th].pc = "err" /\ cbThread[th].target = "dispatcher"
                           /\ cbThread[th].rejected = FALSE

\* C27: the failure_count stored for an event id never decreases, and a
\* failed recovery attempt on a row adds exactly 1 to it.
C27_FailureCountMonotonic ==
    [][\A id \in EventIds :
         /\ (dlq[id] # NoRow /\ dlq'[id] # NoRow)
               => dlq'[id].failure_count >= dlq[id].failure_count
         /\ (rpLog'[id].resends = rpLog[id].resends + 1 /\ ~rpLog'[id].recovered)
               => /\ dlq'[id] # NoRow
                  /\ dlq'[id].failure_count = dlq[id].failure_count + 1]_vars

C27_Witness ==
    \E id \in EventIds :
        /\ dlq[id] # NoRow
        /\ rpLog[id].resends >= 2
        /\ ~rpLog[id].recovered
        /\ dlq[id].failure_count >= 3

\* C29: a recovery pass does not select a row whose last recovery attempt
\* failed at time t, the row's failure_count being c when that attempt
\* started, before t + recovery_backoff_base * 2^(c-1).
C29_BackoffHonoured ==
    [][(rp.pc = "sleep" /\ rp'.pc = "rows")
       => \A i \in 1..Len(rp'.pending) :
             LET id == rp'.pending[i].id IN
             (rpLog[id].resends >= 1 /\ ~rpLog[id].recovered)
             => now >= dlq[id].last_failure
                          + retry_delay(dlq[id].failure_count - 1)]_vars

\* C30: a dead letter row does not become failed before the recovery
\* processor has resent it at least once.
C30_ResentBeforeFailed ==
    \A id \in EventIds : dlq[id].status = "failed" => rpLog[id].resends >= 1

C32_RestoreCountKept ==
    [][\A id \in SessionIds :
          smArchive'[id].restore_count >= smArchive[id].restore_count]_vars

\* C33: when two restore_session calls for the same archived id run at the
\* same time and both have got the session back from the archiver, they
\* have been given different restore_count values and the stored
\* restore_count counts both restores.
C33_ConcurrentRestoresCounted ==
    \A t1, t2 \in Threads :
        (/\ t1 # t2
         /\ smRestore[t1].pc = "activate"
         /\ smRestore[t2].pc = "activate"
         /\ smRestore[t1].id = smRestore[t2].id)
        => /\ smRestore[t1].restore_count # smRestore[t2].restore_count
           /\ smArchive[smRestore[t1].id].restore_count
                = Min(smRestore[t1].restore_count, smRestore[t2].restore_count) + 1

\* C34: restore_session on an id that is in the active set finds nothing,
\* and a restore that returns never replaces a session that is in the
\* active set.
C34_NoRestoreOfLiveSession ==
    [][\A th \in Threads :
          /\ (smRestore[th].pc = "idle" /\ smRestore'[th].pc = "update")
                => ~InActive(smActive, smRestore'[th].id)
          /\ (smRestore[th].pc = "activate" /\ smRestore'[th].pc = "idle"
                /\ InActive(smActive, smRestore[th].id))
                => smActive'[smRestore[th].id] = smActive[smRestore[th].id]]_vars

\* C35: once EventProcessingPipeline.start() has returned, the session
\* monitor thread it spawned is alive: it has not left its loop.
C35_MonitorAliveAfterStart ==
    plRun.start = "returned" => plRun.monitor # "exited"

\* C36: over any sequence of start() and stop() calls on a component at
\* most one of its loop threads is in a tick at any time, and a tick
\* starts only while the component is started.
C36_OneLoopPerComponent ==
    [][/\ Cardinality({t \in LoopThreads : loop'.th[t] = "tick"}) <= 1
       /\ \A t \in LoopThreads :
             (loop.th[t] = "test" /\ loop'.th[t] = "tick") => loop.running]_vars

\* C37: every envelope a stage method of process_event builds and sends is
\* accepted by parse_envelope: it comes back as an envelope, with no error.
C37_StageEnvelopesAccepted ==
    mcp.op = "stage" => (mcp.result.error = {} /\ mcp.result.envelope # {})

\* C38: a breaker's failure_count is the number of calls that raised since
\* its creation or its last HALF_OPEN to CLOSED reset, whatever calls
\* returned in between, and the breaker is CLOSED exactly while that number
\* is below the threshold.
C38_SuccessKeepsFailures ==
    \A t \in Targets :
        breakers[t] # NoBreaker
        => /\ breakers[t].failure_count = cbTrail[t].failures
           /\ (breakers[t].state = "CLOSED"
                 <=> cbTrail[t].failures < cbConfig.failure_threshold)

\* a breaker opened by failures with a successful call between them
C38_Witness ==
    \E t \in Targets :
        /\ breakers[t].state = "OPEN"
        /\ cbTrail[t].kept
        /\ cbTrail[t].failures = cbConfig.failure_threshold

\* C39: when no execute_with_circuit_breaker call is running, the
\* manager's breakers_recovered counter is the number of HALF_OPEN to
\* CLOSED transitions its breakers have made.
C39_RecoveredCountsTransitions ==
    (\A th \in Threads : cbThread[th].pc = "idle")
    => cbStats.breakers_recovered = cbTrail["triage"].closes + cbTrail["dispatcher"].closes

\* the threads whose wrapped function is executing under the breaker of t
Executing(t) ==
    {th \in Threads : cbThread[th].pc = "running" /\ cbThread[th].target = t}

\* C40: at most one wrapped function executes under one breaker at any
\* time, and while a breaker is HALF_OPEN exactly one call, the probe, is
\* executing under it.
C40_CallsSerialized ==
    \A t \in Targets :
        /\ Cardinality(Executing(t)) <= 1
        /\ breakers[t].state = "HALF_OPEN" => Cardinality(Executing(t)) = 1

\* the probe of one breaker and a call on another breaker overlap
C40_Witness ==
    \E t1, t2 \in Targets :
        /\ t1 # t2
        /\ breakers[t1].state = "HALF_OPEN"
        /\ Executing(t1) # {}
        /\ Executing(t2) # {}
====
